---- MODULE Spec2Model ----
(***************************************************************************)
(* Rubik's cube simulation: the 27-cubie grid, the single-flight rotation  *)
(* engine with its animation queue, move history, scramble, solve, reset.  *)
(*   src/src/core/cube.js   RubiksCube class                               *)
(*   src/script.js          the original functions (scramble clears the    *)
(*                          history)                                       *)
(*   src/unnamed/part_001   script.js with the keyboard handler            *)
(*   src/unnamed/part_000   the page with touch gestures on the faces      *)
(*   src/unnamed/part_006   API guide of RubiksCube (sequence of moves)    *)
(*   src/touchHandler.js    TouchHandler class (single-touch gestures)     *)
(* Angles are integer degrees; a frame callback is one step.               *)
(***************************************************************************)
EXTENDS Integers, Sequences, FiniteSets, TLC

VARIABLES
    cubies,          \* cubie id -> [pos, ori, parent]
    moveHistory,     \* sequence of [axis, layer, direction]
    isAnimating,     \* BOOLEAN
    animationQueue,  \* sequence of queued requests
    anims,           \* the animate() closures with a frame callback pending
    chain,           \* closure of the running doNextMove chain
    status,          \* last completion report / status string
    nreq,            \* number of rotateFace requests made so far (request ids)
    budget,          \* number of requests the callers have made so far
    log,             \* requests committed since the last initCube, in commit
                     \* order (observer)
    touchState,      \* the gesture state of the page (touch face rotation)
    groups,          \* the gesture rotation groups created: [axis, layer, angle]
    snaps,           \* the snap animate() closures with a frame pending
    finalizeCalls,   \* the onFinalize calls of the TouchHandler, in call order
    materials,       \* the emissive colour of each cubie's face materials
    buttons,         \* the disabled flags of the three control buttons
    call             \* the last call of a helper function: arguments, result

vars == <<cubies, moveHistory, isAnimating, animationQueue, anims, chain,
          status, nreq, budget, log, touchState, groups, snaps, finalizeCalls,
          materials, buttons, call>>

(***************************************************************************)
(* Bounds of the model                                                     *)
(***************************************************************************)
\* rotation requests of the callers (rotateFace calls, scramble moves)
MaxRequests == 2
\* moves drawn by one scramble in the model (the code draws SCRAMBLE_MOVES)
ScrambleLen == 2
\* key presses and scrambled moves of the queueing specifications
MaxQueueRequests == 5

\* rotateFace calls of the face specification
MaxFaceRequests == 2

\* key presses and scrambled moves of the operations specification
MaxOpsRequests == 4

\* key presses and scrambled moves of the page-script specification
MaxScriptRequests == 4

\* key presses of the page specification
MaxAppKeys == 1
\* touch gestures of the page specification
MaxGestures == 2
\* largest angle, in degrees, a swipe turns a face to
MaxAngle == 90

\* longest neighbor list drawn for the corner neighbor selection
MaxNeighbors == 3
\* largest swipe displacement, in pixels, drawn for it
MaxDelta == 2

\* touch gestures of the handler specification
MaxHandlerGestures == 2

\* touch gestures of the wide-swipe specification
MaxWideGestures == 1

\* largest angle, in degrees, a wide swipe turns a face to
MaxTurn == 370

\* touch gestures of the gesture-record specification
MaxRecordGestures == 1

\* largest angle, in degrees, a swipe of the gesture-record specification
\* turns a face to
MaxRecordTurn == 370

\* requests of the callers of the callback specification
MaxCallbackRequests == 4

\* touch-downs of the gesture-target specification
MaxTargetGestures == 2

\* largest angle, in degrees, a swipe of the gesture-target specification
\* turns a face to
MaxTargetAngle == 80

\* touch gestures of the reset specification
MaxResetGestures == 1

\* scrambles of the full-length scramble specification
MaxScrambles == 1

\* const moves = ['R', 'U', "R'", "U'"]
SEQUENCE_LENGTH == 4

\* for (let i = 0; i < 20; i++)
SCRAMBLE_MOVES == 20

(***************************************************************************)
(* Geometry                                                                *)
(***************************************************************************)
Axes == {"x", "y", "z"}
Layers == {-1, 0, 1}
Directions == {-1, 1}

\* variant: the primed moves turn the same way as the un-primed ones
MOVES_PrimeSameWay ==
    [n \in {"R", "R'", "L", "L'", "U", "U'", "D", "D'", "F", "F'", "B", "B'"} |->
        CASE n \in {"R", "R'"} -> [axis |-> "x", layer |-> 1,  direction |-> -1]
          [] n \in {"L", "L'"} -> [axis |-> "x", layer |-> -1, direction |-> 1]
          [] n \in {"U", "U'"} -> [axis |-> "y", layer |-> 1,  direction |-> -1]
          [] n \in {"D", "D'"} -> [axis |-> "y", layer |-> -1, direction |-> 1]
          [] n \in {"F", "F'"} -> [axis |-> "z", layer |-> 1,  direction |-> -1]
          [] n \in {"B", "B'"} -> [axis |-> "z", layer |-> -1, direction |-> 1]]

MOVES ==
    [n \in {"R", "R'", "L", "L'", "U", "U'", "D", "D'", "F", "F'", "B", "B'"} |->
        CASE n = "R"  -> [axis |-> "x", layer |-> 1,  direction |-> -1]
          [] n = "R'" -> [axis |-> "x", layer |-> 1,  direction |-> 1]
          [] n = "L"  -> [axis |-> "x", layer |-> -1, direction |-> 1]
          [] n = "L'" -> [axis |-> "x", layer |-> -1, direction |-> -1]
          [] n = "U"  -> [axis |-> "y", layer |-> 1,  direction |-> -1]
          [] n = "U'" -> [axis |-> "y", layer |-> 1,  direction |-> 1]
          [] n = "D"  -> [axis |-> "y", layer |-> -1, direction |-> 1]
          [] n = "D'" -> [axis |-> "y", layer |-> -1, direction |-> -1]
          [] n = "F"  -> [axis |-> "z", layer |-> 1,  direction |-> -1]
          [] n = "F'" -> [axis |-> "z", layer |-> 1,  direction |-> 1]
          [] n = "B"  -> [axis |-> "z", layer |-> -1, direction |-> 1]
          [] n = "B'" -> [axis |-> "z", layer |-> -1, direction |-> -1]]

MoveNames == DOMAIN MOVES

\* the names pressed and drawn in the queueing specifications
QueueNames == {"R", "U'"}

\* the faces touched, and the angles one touchmove adds, in the page
\* specification. The angles reached are multiples of 40 degrees: none puts a
\* coordinate, or the snap, half way between two integers, where the result
\* of Math.round would rest on floating-point error.
TouchFaces == {<<"y", 1>>, <<"z", 1>>}
SwipeAngles == {-80, 40}

\* the angles one touchmove adds in the wide-swipe specification
WideAngles == {40, 50, 185, -100}

\* the angles one touchmove adds in the gesture-record specification
RecordAngles == {184, -92, 23}

SequenceNames == {"R", "U", "R'", "U'"}

Ids == 1..27

\* initCube's loops: x outermost, z innermost
CanonPos(i) ==
    << ((i - 1) \div 9) - 1, (((i - 1) \div 3) % 3) - 1, ((i - 1) % 3) - 1 >>

Identity == << <<1, 0, 0>>, <<0, 1, 0>>, <<0, 0, 1>> >>

\* an orientation that is not one of the 24 axis-aligned ones
Skew == << <<0, 0, 0>>, <<0, 0, 0>>, <<0, 0, 0>> >>

AxisIndex(axis) == CASE axis = "x" -> 1 [] axis = "y" -> 2 [] axis = "z" -> 3

Mod360(a) == ((a % 360) + 360) % 360

\* Math.round(cos(phi)) for phi in degrees (cos(phi) = 1/2 taken as above 1/2,
\* cos(phi) = -1/2 as above -1/2)
RoundCos1(phi) ==
    LET p == Mod360(phi) IN
    IF p <= 60 \/ p >= 300 THEN 1
    ELSE IF p > 120 /\ p < 240 THEN -1 ELSE 0

\* Math.round(sqrt(2) * cos(phi)) for phi in degrees
RoundCos2(phi) ==
    LET p == Mod360(phi) IN
    IF p <= 69 \/ p >= 291 THEN 1
    ELSE IF p >= 111 /\ p <= 249 THEN -1 ELSE 0

\* polar angle of the grid point (a, b) of the rotation plane
Polar(a, b) ==
    CASE a = 1  /\ b = 0  -> 0
      [] a = 1  /\ b = 1  -> 45
      [] a = 0  /\ b = 1  -> 90
      [] a = -1 /\ b = 1  -> 135
      [] a = -1 /\ b = 0  -> 180
      [] a = -1 /\ b = -1 -> 225
      [] a = 0  /\ b = -1 -> 270
      [] a = 1  /\ b = -1 -> 315
      [] OTHER -> 0

\* the point (a, b) turned by deg degrees, each coordinate rounded to the grid
TurnRound(a, b, deg) ==
    IF a = 0 /\ b = 0 THEN <<0, 0>>
    ELSE IF a = 0 \/ b = 0
         THEN << RoundCos1(Polar(a, b) + deg), RoundCos1(Polar(a, b) + deg - 90) >>
         ELSE << RoundCos2(Polar(a, b) + deg), RoundCos2(Polar(a, b) + deg - 90) >>

\* the group rotation about axis by deg degrees applied to v, rounded to the grid
RotateRound(axis, deg, v) ==
    CASE axis = "x" -> LET t == TurnRound(v[2], v[3], deg) IN <<v[1], t[1], t[2]>>
      [] axis = "y" -> LET t == TurnRound(v[3], v[1], deg) IN <<t[2], v[2], t[1]>>
      [] axis = "z" -> LET t == TurnRound(v[1], v[2], deg) IN <<t[1], t[2], v[3]>>

\* (group quaternion) * (cubie quaternion)
RotateOri(axis, deg, ori) ==
    IF ori = Skew \/ deg % 90 # 0 THEN Skew
    ELSE [k \in 1..3 |-> RotateRound(axis, deg, ori[k])]

(***************************************************************************)
(* Cube state model                                                        *)
(***************************************************************************)
\* parent of a cubie: CubeGroup, the rotation group of the engine rotation
\* with request id (id > 0), or the k-th gesture rotation group (-k)
CubeGroup == 0

\* touchState.rotationGroup = null
NoGroup == 0

\* the touchState fields the face rotation reads and writes; swipeTouch stands
\* for touchState.swipeTouch being set (a swipe finger is down)
NoTouch ==
    [swipeTouch |-> FALSE, swipeAxis |-> "null", swipeLayer |-> 0,
     currentRotation |-> 0, rotationGroup |-> NoGroup]

\* no helper function has been called
NoCall == [fn |-> "none"]

Cubie(i) == [pos |-> CanonPos(i), ori |-> Identity, parent |-> CubeGroup]

\* the 27 cubies initCube creates
SolvedCubies == [i \in Ids |-> Cubie(i)]

NoChain == [kind |-> "none", moves |-> <<>>, index |-> 0]

\* the face materials createCubie gives a cubie: no emissive colour ("none");
\* highlighting sets the emissive colour 0x444444 ("glow")
NewMaterials == [i \in Ids |-> "none"]

\* scrambleBtn, solveBtn, resetBtn of the page: the disabled flags
EnabledButtons == [scrambleBtn |-> FALSE, solveBtn |-> FALSE, resetBtn |-> FALSE]

\* the mutable program state as one value, so that a handler is a composition
State ==
    [cubies |-> cubies, moveHistory |-> moveHistory, isAnimating |-> isAnimating,
     animationQueue |-> animationQueue, anims |-> anims, chain |-> chain,
     status |-> status, nreq |-> nreq, log |-> log,
     touchState |-> touchState, groups |-> groups, snaps |-> snaps,
     finalizeCalls |-> finalizeCalls, materials |-> materials, buttons |-> buttons]

\* variant: initCube keeps the move history
InitCube_KeepsHistory(s) ==
    [s EXCEPT !.cubies = SolvedCubies, !.animationQueue = <<>>, !.log = <<>>,
              !.materials = NewMaterials]

\* cubies.forEach(cubie => cubeGroup.remove(cubie)); cubies = []: a cubie
\* that is in a gesture rotation group is no child of the cube, so the group
\* keeps it (held) when the model forgets it
HoldOldCubies(s) ==
    [k \in 1..Len(s.groups) |->
        LET old == {s.cubies[i] : i \in {j \in Ids : s.cubies[j].parent = -k}} IN
        IF old = {} THEN s.groups[k]
        ELSE [axis |-> s.groups[k].axis, layer |-> s.groups[k].layer,
              angle |-> s.groups[k].angle, held |-> old, ghosts |-> {}]]

InitCube(s) ==
    [s EXCEPT !.cubies = SolvedCubies, !.moveHistory = <<>>, !.animationQueue = <<>>,
              !.log = <<>>, !.materials = NewMaterials, !.groups = HoldOldCubies(s)]

\* variant: the face is picked by the positions the cubies were created at
GetCubiesOnFace_Initial(c, axis, value) ==
    IF axis \in Axes THEN {i \in Ids : CanonPos(i)[AxisIndex(axis)] = value} ELSE {}

\* cubies.filter(|pos[axis] - value * totalSize| < tolerance); with an axis
\* that is none of 'x', 'y', 'z' no case of the switch matches and the filter
\* keeps nothing
GetCubiesOnFace(c, axis, value) ==
    IF axis \in Axes THEN {i \in Ids : c[i].pos[AxisIndex(axis)] = value} ELSE {}

(***************************************************************************)
(* Rotation engine                                                         *)
(***************************************************************************)
\* cubeGroup.remove(cubie); rotationGroup.add(cubie), for each cubie of the face
Detach(c, face, group) ==
    [i \in Ids |-> IF i \in face THEN [c[i] EXCEPT !.parent = group] ELSE c[i]]

\* variant: the move is pushed to the history when the rotation starts
StartRotation_RecordsAtStart(s, req) ==
    LET face == GetCubiesOnFace(s.cubies, req.axis, req.layer) IN
    [s EXCEPT !.isAnimating = TRUE,
              !.cubies = Detach(s.cubies, face, req.id),
              !.moveHistory = IF req.record
                              THEN Append(@, [axis |-> req.axis, layer |-> req.layer,
                                              direction |-> req.direction])
                              ELSE @,
              !.anims = @ \cup {[axis |-> req.axis, layer |-> req.layer,
                                 direction |-> req.direction, record |-> req.record,
                                 callback |-> req.callback, id |-> req.id,
                                 during |-> req.during,
                                 faceCubies |-> face, frames |-> 0]}]

\* rotateFace past the isAnimating test: detach the face into a new rotation
\* group; the first animate() call leaves a frame callback pending
StartRotation(s, req) ==
    LET face == GetCubiesOnFace(s.cubies, req.axis, req.layer) IN
    [s EXCEPT !.isAnimating = TRUE,
              !.cubies = Detach(s.cubies, face, req.id),
              !.anims = @ \cup {[axis |-> req.axis, layer |-> req.layer,
                                 direction |-> req.direction, record |-> req.record,
                                 callback |-> req.callback, id |-> req.id,
                                 during |-> req.during,
                                 faceCubies |-> face, frames |-> 0]}]

\* variant: the request goes to the head of the queue
Enqueue_AtHead(s, req) == [s EXCEPT !.animationQueue = <<req>> \o @]

\* variant: the queue entry does not keep the callback
Enqueue_NoCallback(s, req) ==
    [s EXCEPT !.animationQueue = Append(@, [req EXCEPT !.callback = "null"])]

\* animationQueue.push({ axis, layer, direction, record, callback })
Enqueue(s, req) == [s EXCEPT !.animationQueue = Append(@, req)]

\* variant: rotateFace without the isAnimating test
RotateFace_NoGuard(s, req) == StartRotation(s, req)

RotateFace(s, req) == IF s.isAnimating THEN Enqueue(s, req) ELSE StartRotation(s, req)

\* the id of the rotation in flight (0 when there is none)
InFlight(s) == IF s.anims = {} THEN 0 ELSE (CHOOSE a \in s.anims : TRUE).id

\* a request made by a caller: it gets the next request id, and notes the
\* rotation in flight when it was made (observer fields id, during)
NewRequest(s, axis, layer, direction, record, callback) ==
    RotateFace([s EXCEPT !.nreq = @ + 1],
               [axis |-> axis, layer |-> layer, direction |-> direction,
                record |-> record, callback |-> callback, id |-> s.nreq + 1,
                during |-> InFlight(s)])

\* names MOVES does not define but inherits from Object.prototype: MOVES[name]
\* is a function, which is truthy and has no axis, layer or direction
InheritedNames == {"constructor", "toString"}

\* move.axis, move.layer, move.direction of such a value: undefined (the
\* layer and the direction, which the model keeps as integers, are 0 beside
\* the axis "undefined")
UndefinedMove == [axis |-> "undefined", layer |-> 0, direction |-> 0]

\* const move = MOVES[moveName]; if (move) this.rotateFace(...)
ExecuteMove(s, moveName, record, callback) ==
    IF moveName \in DOMAIN MOVES
    THEN NewRequest(s, MOVES[moveName].axis, MOVES[moveName].layer,
                    MOVES[moveName].direction, record, callback)
    ELSE IF moveName \in InheritedNames
    THEN NewRequest(s, UndefinedMove.axis, UndefinedMove.layer,
                    UndefinedMove.direction, record, callback)
    ELSE s

\* variant: the commit turns the face clockwise whatever the direction
Reattach_Clockwise(c, a, g) ==
    IF c.parent = a.id
    THEN [pos |-> RotateRound(a.axis, 90, c.pos),
          ori |-> RotateOri(a.axis, 90, c.ori),
          parent |-> CubeGroup]
    ELSE IF c.parent < 0
    THEN [pos |-> RotateRound(g[-c.parent].axis, g[-c.parent].angle, c.pos),
          ori |-> RotateOri(g[-c.parent].axis, g[-c.parent].angle, c.ori),
          parent |-> CubeGroup]
    ELSE [c EXCEPT !.parent = CubeGroup]

\* reattach one cubie of faceCubies: world position to cube-local, rounded.
\* The world position goes through the cubie's parent at that time: the
\* rotation group of a (at direction * 90 degrees), a gesture rotation group
\* that took the cubie since (at its current angle), or the cube itself.
Reattach(c, a, g) ==
    IF c.parent = a.id
    THEN [pos |-> RotateRound(a.axis, a.direction * 90, c.pos),
          ori |-> RotateOri(a.axis, a.direction * 90, c.ori),
          parent |-> CubeGroup]
    ELSE IF c.parent < 0
    THEN [pos |-> RotateRound(g[-c.parent].axis, g[-c.parent].angle, c.pos),
          ori |-> RotateOri(g[-c.parent].axis, g[-c.parent].angle, c.ori),
          parent |-> CubeGroup]
    ELSE [c EXCEPT !.parent = CubeGroup]

\* faceCubies.forEach(...) of the commit
CommitCubies(c, a, g) ==
    [i \in Ids |-> IF i \in a.faceCubies THEN Reattach(c[i], a, g) ELSE c[i]]

\* if (record) moveHistory.push({ axis, layer, direction })
RecordMove(s, a) ==
    IF a.record
    THEN [s EXCEPT !.moveHistory = Append(@, [axis |-> a.axis, layer |-> a.layer,
                                              direction |-> a.direction])]
    ELSE s

\* the else branch of doNextMove: onComplete of scramble and of solve (the
\* status line of script.js); executeNext of the sequence example does nothing
ChainDone(kind, text) ==
    CASE kind = "scramble" -> "Scrambled"
      [] kind = "solve" -> "Solved"
      [] OTHER -> text

\* function disableButtons() / UIController.disableButtons
DisableButtons(s) ==
    [s EXCEPT !.buttons = [scrambleBtn |-> TRUE, solveBtn |-> TRUE, resetBtn |-> TRUE]]

\* variant: enableButtons leaves the reset button as it is
EnableButtons_NotReset(s) ==
    [s EXCEPT !.buttons = [scrambleBtn |-> FALSE, solveBtn |-> FALSE,
                           resetBtn |-> s.buttons.resetBtn]]

\* function enableButtons() / UIController.enableButtons
EnableButtons(s) ==
    [s EXCEPT !.buttons = [scrambleBtn |-> FALSE, solveBtn |-> FALSE, resetBtn |-> FALSE]]

\* the else branch of doNextMove: the status line and enableButtons() of
\* script.js at the end of a scramble or a solve
OnComplete(s) ==
    IF s.chain.kind \in {"scramble", "solve"}
    THEN EnableButtons([s EXCEPT !.status = ChainDone(s.chain.kind, @), !.chain = NoChain])
    ELSE [s EXCEPT !.status = ChainDone(s.chain.kind, @), !.chain = NoChain]

\* variant: solve replays the reversed history without negating the direction
DoNextMove_SameDirection(s) ==
    IF s.chain.index < Len(s.chain.moves)
    THEN LET m == s.chain.moves[s.chain.index + 1] IN
         IF s.chain.kind = "solve"
         THEN NewRequest(s, m.axis, m.layer, m.direction, FALSE, "doNextMove")
         ELSE ExecuteMove(s, m, TRUE, "doNextMove")
    ELSE OnComplete(s)

\* doNextMove of scramble and of solve, executeNext of the sequence example
DoNextMove(s) ==
    IF s.chain.index < Len(s.chain.moves)
    THEN LET m == s.chain.moves[s.chain.index + 1] IN
         IF s.chain.kind = "solve"
         THEN NewRequest(s, m.axis, m.layer, -m.direction, FALSE, "doNextMove")
         ELSE ExecuteMove(s, m, TRUE, "doNextMove")
    ELSE OnComplete(s)

\* the callback a caller passes with its n-th request: a function of its own
CallbackOf(n) == "callback" \o ToString(n)

\* a caller's callback runs: it notes the call (observer entry of the log)
CallerCallback(s, cb) ==
    [s EXCEPT !.log = Append(@, [id |-> 0, axis |-> "null", layer |-> 0, direction |-> 0,
                                 record |-> FALSE, src |-> cb])]

\* if (callback) callback():  () => { index++; doNextMove(); }
\* and the callback a caller passed
Callback(s, cb) ==
    IF cb = "doNextMove"
    THEN DoNextMove([s EXCEPT !.chain.index = @ + 1])
    ELSE IF cb = "null" THEN s
    ELSE CallerCallback(s, cb)

\* variant: the commit never looks at the queue
ProcessQueue_Never(s) == s

\* variant: the commit takes the head off the queue and does not start it
ProcessQueue_ShiftOnly(s) ==
    IF Len(s.animationQueue) > 0 THEN [s EXCEPT !.animationQueue = Tail(@)] ELSE s

\* if (animationQueue.length > 0) rotateFace(animationQueue.shift())
ProcessQueue(s) ==
    IF Len(s.animationQueue) > 0
    THEN RotateFace([s EXCEPT !.animationQueue = Tail(@)], Head(s.animationQueue))
    ELSE s

\* the frame of animate() with progress = 1, for the closure a, up to the
\* completion callback: reattach, record, isAnimating = false
CommitUntilCallback(s, a) ==
    LET s1 == RecordMove([s EXCEPT !.cubies = CommitCubies(s.cubies, a, s.groups)], a)
    IN  [s1 EXCEPT !.isAnimating = FALSE, !.anims = @ \ {a},
                   !.log = Append(@, [id |-> a.id, axis |-> a.axis,
                                      layer |-> a.layer, direction |-> a.direction,
                                      record |-> a.record,
                                      src |-> IF a.callback = "doNextMove"
                                              THEN s.chain.kind ELSE "key"])]

\* variant: the queue is looked at before the completion callback runs
Commit_QueueFirst(s, a) ==
    Callback(ProcessQueue(CommitUntilCallback(s, a)), a.callback)

\* the frame of animate() with progress = 1, for the closure a
Commit(s, a) ==
    ProcessQueue(Callback(CommitUntilCallback(s, a), a.callback))

(***************************************************************************)
(* Scramble, solve, reset                                                  *)
(***************************************************************************)
Busy(s) == s.isAnimating \/ Len(s.animationQueue) > 0

\* variant: scramble requests all its moves at once, so that they queue up
RECURSIVE ExecuteAll(_, _, _)
ExecuteAll(s, moves, k) ==
    IF k > Len(moves) THEN s
    ELSE ExecuteAll(ExecuteMove(s, moves[k], TRUE, "null"), moves, k + 1)

ScrambleWith_AllAtOnce(s, scrambleMoves) ==
    IF Busy(s) THEN s
    ELSE ExecuteAll([s EXCEPT !.chain = [kind |-> "scramble", moves |-> scrambleMoves,
                                         index |-> 0]], scrambleMoves, 1)

\* RubiksCube.scramble with the drawn moves
ScrambleWith(s, scrambleMoves) ==
    IF Busy(s) THEN s
    ELSE DoNextMove([s EXCEPT !.chain = [kind |-> "scramble", moves |-> scrambleMoves,
                                         index |-> 0]])

\* scramble of script.js, which empties the history first
ScrambleScript(s, scrambleMoves) ==
    IF Busy(s) THEN s
    ELSE DoNextMove(DisableButtons(
             [s EXCEPT !.moveHistory = <<>>, !.status = "Scrambling",
                       !.chain = [kind |-> "scramble", moves |-> scrambleMoves,
                                  index |-> 0]]))

\* const moves = [...]; let index = 0; executeNext()
ExecuteSequence(s, moves) ==
    DoNextMove([s EXCEPT !.chain = [kind |-> "sequence", moves |-> moves, index |-> 0]])

\* [...moveHistory].reverse()
Reverse(seq) == [k \in 1..Len(seq) |-> seq[Len(seq) + 1 - k]]

\* variant: solve without the test for an empty history
Solve_NoEmptyTest(s) ==
    IF Busy(s) THEN s
    ELSE DoNextMove([s EXCEPT !.chain = [kind |-> "solve",
                                         moves |-> Reverse(s.moveHistory), index |-> 0],
                              !.moveHistory = <<>>])

\* variant: solve replays the history without emptying it
Solve_KeepsHistory(s) ==
    IF Busy(s) THEN s
    ELSE IF Len(s.moveHistory) = 0 THEN [s EXCEPT !.status = "AlreadySolved"]
    ELSE DoNextMove([s EXCEPT !.chain = [kind |-> "solve",
                                         moves |-> Reverse(s.moveHistory), index |-> 0]])

\* RubiksCube.solve
Solve(s) ==
    IF Busy(s) THEN s
    ELSE IF Len(s.moveHistory) = 0 THEN [s EXCEPT !.status = "AlreadySolved"]
    ELSE DoNextMove([s EXCEPT !.chain = [kind |-> "solve",
                                         moves |-> Reverse(s.moveHistory), index |-> 0],
                              !.moveHistory = <<>>])

\* solve of script.js
SolveScript(s) ==
    IF Busy(s) THEN s
    ELSE IF Len(s.moveHistory) = 0 THEN [s EXCEPT !.status = "AlreadySolved"]
    ELSE DoNextMove(DisableButtons(
             [s EXCEPT !.status = "Solving",
                       !.chain = [kind |-> "solve", moves |-> Reverse(s.moveHistory),
                                  index |-> 0],
                       !.moveHistory = <<>>]))

\* reset of script.js; its initCube ends with updateStatus('Ready')
ResetScript(s) == IF Busy(s) THEN s ELSE [InitCube(s) EXCEPT !.status = "Ready"]

\* variant: reset without the guard
Reset_NoGuard(s) == InitCube(s)

\* RubiksCube.reset
Reset(s) == IF Busy(s) THEN s ELSE InitCube(s)

(***************************************************************************)
(* Touch face rotation (part_000)                                          *)
(***************************************************************************)
\* startFaceRotation(axis, layer, 0): a rotation group left over is removed
\* from the cube with the cubies it still holds; the face, picked by local
\* position, moves into a new group
StartFaceRotation(s, axis, layer) ==
    LET face == GetCubiesOnFace(s.cubies, axis, layer)
        group == -(Len(s.groups) + 1) IN
    [s EXCEPT !.cubies = Detach(s.cubies, face, group),
              !.groups = Append(@, [axis |-> axis, layer |-> layer, angle |-> 0]),
              !.touchState = [@ EXCEPT !.rotationGroup = group, !.swipeAxis = axis,
                                       !.swipeLayer = layer, !.currentRotation = 0]]

\* touchState.currentRotation = angle; switch (touchState.swipeAxis) {
\*   case ...: touchState.rotationGroup.rotation[axis] = angle }
SetRotation(s, angle) ==
    [s EXCEPT !.touchState.currentRotation = angle,
              !.groups = IF s.touchState.swipeAxis = "null" THEN @
                         ELSE [@ EXCEPT ![-s.touchState.rotationGroup].angle = angle]]

\* variant: the angle is cut down to whole quarter turns, not rounded
QuarterTurns_Floor(angle) == angle \div 90

\* Math.round(angle / (Math.PI / 2)), for an angle in degrees
QuarterTurns(angle) == (angle + 45) \div 90

\* variant: a half turn is pushed as one move
GestureMoves_HalfAsOne(axis, layer, normalizedTurns) ==
    LET move(d) == [axis |-> axis, layer |-> layer, direction |-> d] IN
    CASE normalizedTurns = 1 -> <<move(1)>>
      [] normalizedTurns = 3 -> <<move(-1)>>
      [] normalizedTurns = 2 -> <<move(1)>>
      [] OTHER -> <<>>

\* the moves finalizeFaceRotation pushes for normalizedTurns 1, 3, 2, 0
GestureMoves(axis, layer, normalizedTurns) ==
    LET move(d) == [axis |-> axis, layer |-> layer, direction |-> d] IN
    CASE normalizedTurns = 1 -> <<move(1)>>
      [] normalizedTurns = 3 -> <<move(-1)>>
      [] normalizedTurns = 2 -> <<move(1), move(1)>>
      [] OTHER -> <<>>

\* one child of touchState.rotationGroup: world position at finalAngle to
\* cube-local, rounded, and back under the cube
ReattachChild(c, axis, finalAngle) ==
    [pos |-> RotateRound(axis, finalAngle, c.pos),
     ori |-> RotateOri(axis, finalAngle, c.ori),
     parent |-> CubeGroup]

\* the angle, after rotationGroup.rotation[axis] = finalAngle, of the Euler
\* rotation of the group g about the axis e; a touchmove that turned the group
\* about an axis other than the one it was detached for left strayAngle there
EulerAngle(g, axis, finalAngle, e) ==
    IF e = axis THEN finalAngle
    ELSE IF "strayAxis" \in DOMAIN g /\ g.strayAxis = e THEN g.strayAngle
    ELSE 0

\* one child of the group g: the group's rotation (Euler order XYZ: about z
\* first, about x last) applied, rounded, and back under the cube
ReattachGroupChild(c, g, axis, finalAngle) ==
    IF "strayAxis" \notin DOMAIN g THEN ReattachChild(c, axis, finalAngle)
    ELSE ReattachChild(
             ReattachChild(
                 ReattachChild(c, "z", EulerAngle(g, axis, finalAngle, "z")),
                 "y", EulerAngle(g, axis, finalAngle, "y")),
             "x", EulerAngle(g, axis, finalAngle, "x"))

\* the group g after the commit: the cubies it held that the model has
\* forgotten go back under the cube like the others (ghosts)
FinalizedGroup(g, axis, finalAngle) ==
    IF "held" \notin DOMAIN g THEN [g EXCEPT !.angle = finalAngle]
    ELSE [g EXCEPT !.angle = finalAngle, !.held = {},
                   !.ghosts = @ \cup {ReattachGroupChild(c, g, axis, finalAngle) :
                                          c \in g.held}]

FinalizeFaceRotation(s, finalAngle) ==
    IF s.touchState.rotationGroup = NoGroup \/ s.touchState.swipeAxis = "null" THEN s
    ELSE LET t == s.touchState IN
         [s EXCEPT !.cubies = [i \in Ids |->
                                   IF s.cubies[i].parent = t.rotationGroup
                                   THEN ReattachGroupChild(s.cubies[i],
                                                           s.groups[-t.rotationGroup],
                                                           t.swipeAxis, finalAngle)
                                   ELSE s.cubies[i]],
                   !.groups = [@ EXCEPT ![-t.rotationGroup] =
                                  FinalizedGroup(@, t.swipeAxis, finalAngle)],
                   !.moveHistory = @ \o GestureMoves(t.swipeAxis, t.swipeLayer,
                                                     QuarterTurns(finalAngle) % 4),
                   !.touchState = [@ EXCEPT !.rotationGroup = NoGroup, !.swipeAxis = "null",
                                            !.swipeLayer = 0, !.currentRotation = 0]]

\* completeFaceRotation: finalize at once when the angle is at a quarter turn,
\* else start the 200 ms snap animation (its first animate() call leaves the
\* angle at startAngle and a frame callback pending; group notes the rotation
\* group the gesture was released with)
CompleteFaceRotation(s) ==
    IF s.touchState.rotationGroup = NoGroup \/ s.touchState.swipeAxis = "null" THEN s
    ELSE LET currentAngle == s.touchState.currentRotation
             snapAngle == QuarterTurns(currentAngle) * 90 IN
         IF snapAngle = currentAngle
         THEN FinalizeFaceRotation(s, snapAngle)
         ELSE [s EXCEPT !.snaps = @ \cup {[startAngle |-> currentAngle,
                                            snapAngle |-> snapAngle,
                                            group |-> s.touchState.rotationGroup]}]

(***************************************************************************)
(* Actions                                                                 *)
(***************************************************************************)
AssignState(t) ==
    /\ cubies' = t.cubies
    /\ moveHistory' = t.moveHistory
    /\ isAnimating' = t.isAnimating
    /\ animationQueue' = t.animationQueue
    /\ anims' = t.anims
    /\ chain' = t.chain
    /\ status' = t.status
    /\ nreq' = t.nreq
    /\ log' = t.log
    /\ touchState' = t.touchState
    /\ groups' = t.groups
    /\ snaps' = t.snaps
    /\ finalizeCalls' = t.finalizeCalls
    /\ materials' = t.materials
    /\ buttons' = t.buttons

Assign(t) == AssignState(t) /\ call' = call

Init ==
    /\ cubies = SolvedCubies
    /\ moveHistory = <<>>
    /\ isAnimating = FALSE
    /\ animationQueue = <<>>
    /\ anims = {}
    /\ chain = NoChain
    /\ status = "Ready"
    /\ nreq = 0
    /\ budget = 0
    /\ log = <<>>
    /\ touchState = NoTouch
    /\ groups = <<>>
    /\ snaps = {}
    /\ finalizeCalls = <<>>
    /\ materials = NewMaterials
    /\ buttons = EnabledButtons
    /\ call = NoCall

\* keydown -> executeMove(moveName, true) with a name drawn from names
KeyPressOf(names, max) ==
    /\ budget < max
    /\ \E moveName \in names : Assign(ExecuteMove(State, moveName, TRUE, "null"))
    /\ budget' = budget + 1

\* scrambleBtn click; the moves Math.random draws are the input
ScrambleOf(names, max) ==
    /\ budget + ScrambleLen <= max
    /\ \E scrambleMoves \in [1..ScrambleLen -> names] :
           Assign(ScrambleWith(State, scrambleMoves))
    /\ budget' = IF Busy(State) THEN budget ELSE budget + ScrambleLen

\* a caller's rubiksCube.rotateFace(axis, layer, direction), recorded
RotateFaceCallOf(max) ==
    /\ budget < max
    /\ \E axis \in Axes, layer \in Layers, direction \in Directions :
           Assign(NewRequest(State, axis, layer, direction, TRUE, "null"))
    /\ budget' = budget + 1

RotateFaceCall == RotateFaceCallOf(MaxRequests)

\* a frame callback of animate() with progress < 1: the group turns on, and
\* the next frame is requested (frames: whether such a frame has run)
AnimateFrame ==
    /\ \E a \in anims : anims' = (anims \ {a}) \cup {[a EXCEPT !.frames = 1]}
    /\ UNCHANGED <<cubies, moveHistory, isAnimating, animationQueue, chain, status,
                   nreq, budget, log, touchState, groups, snaps, finalizeCalls,
                   materials, buttons, call>>

\* the frame callback of animate() with progress = 1
AnimateCommit ==
    /\ \E a \in anims : Assign(Commit(State, a))
    /\ UNCHANGED budget

ScrambleClick == ScrambleOf(MoveNames, MaxRequests)

SolveClick ==
    /\ Assign(Solve(State))
    /\ UNCHANGED budget

ResetClick ==
    /\ Assign(Reset(State))
    /\ UNCHANGED budget

\* (frames with progress < 1 change only the angle shown: they are steps of
\* SpecQ and SpecSeq)
Next ==
    \/ RotateFaceCall
    \/ AnimateCommit
    \/ ScrambleClick
    \/ SolveClick
    \/ ResetClick

\* RubiksCube (cube.js) under rotateFace calls of every axis, layer and
\* direction, scramble, solve and reset
Spec == Init /\ [][Next]_vars

KeyPressQ == KeyPressOf(QueueNames, MaxQueueRequests)

ScrambleClickQ == ScrambleOf(QueueNames, MaxQueueRequests)

NextQ ==
    \/ KeyPressQ
    \/ AnimateFrame
    \/ AnimateCommit
    \/ ScrambleClickQ

\* RubiksCube (cube.js) under key presses and scrambles of two move names
SpecQ == Init /\ [][NextQ]_vars

KeyPressOps == KeyPressOf(QueueNames, MaxOpsRequests)

ScrambleClickOps == ScrambleOf(QueueNames, MaxOpsRequests)

NextOps ==
    \/ KeyPressOps
    \/ AnimateFrame
    \/ AnimateCommit
    \/ ScrambleClickOps
    \/ SolveClick
    \/ ResetClick

\* RubiksCube (cube.js) under key presses of two move names, scramble, solve
\* and reset
SpecOps == Init /\ [][NextOps]_vars

\* scrambleBtn click of script.js
ScrambleClickScript ==
    /\ budget + ScrambleLen <= MaxScriptRequests
    /\ \E scrambleMoves \in [1..ScrambleLen -> QueueNames] :
           Assign(ScrambleScript(State, scrambleMoves))
    /\ budget' = IF Busy(State) THEN budget ELSE budget + ScrambleLen

KeyPressScript == KeyPressOf(QueueNames, MaxScriptRequests)

NextScript ==
    \/ KeyPressScript
    \/ AnimateCommit
    \/ ScrambleClickScript
    \/ SolveClick
    \/ ResetClick

\* the page script (script.js, with the keyboard handler of its later version)
SpecScript == Init /\ [][NextScript]_vars

\* the sequence example on a fresh cube, the moves of the sequence as input
RunSequence ==
    /\ nreq = 0
    /\ \E moves \in [1..SEQUENCE_LENGTH -> SequenceNames] :
           Assign(ExecuteSequence(State, moves))
    /\ UNCHANGED budget

NextSeq ==
    \/ RunSequence
    \/ AnimateFrame
    \/ AnimateCommit
    \/ SolveClick

\* RubiksCube (cube.js) driven by the sequence example of its API guide
SpecSeq == Init /\ [][NextSeq]_vars

\* the sequences of SCRAMBLE_MOVES names the scramble loop draws in the
\* full-length specification: every name at the odd places, two at the even
ScrambleDraws ==
    {[k \in 1..SCRAMBLE_MOVES |-> IF k % 2 = 1 THEN a ELSE b] :
         a \in MoveNames, b \in QueueNames}

\* scramble() with all its SCRAMBLE_MOVES moves
ScrambleClickFull ==
    /\ budget < MaxScrambles
    /\ \E scrambleMoves \in ScrambleDraws : Assign(ScrambleWith(State, scrambleMoves))
    /\ budget' = IF Busy(State) THEN budget ELSE budget + 1

NextScramble ==
    \/ ScrambleClickFull
    \/ AnimateFrame
    \/ AnimateCommit

\* RubiksCube (cube.js) under full-length scrambles and no other input
SpecScramble == Init /\ [][NextScramble]_vars

\* keydown of the page: executeMove(moveName, true)
KeyPressApp == KeyPressOf(QueueNames, MaxAppKeys)

\* touchstart with two touches, the second on a centre or an edge cubie of the
\* face (axis, layer): the rotation starts at once
TouchStartOf(max) ==
    /\ ~touchState.swipeTouch
    /\ Len(groups) < max
    /\ \E face \in TouchFaces :
           Assign(StartFaceRotation([State EXCEPT !.touchState.swipeTouch = TRUE],
                                    face[1], face[2]))
    /\ UNCHANGED budget

TouchStart == TouchStartOf(MaxGestures)

\* touchmove of the swipe touch; the angle calculateTouchRotationAngle gives
\* is the input
TouchMove ==
    /\ touchState.swipeTouch
    /\ touchState.rotationGroup # NoGroup
    /\ \E deltaAngle \in SwipeAngles :
           /\ touchState.currentRotation + deltaAngle \in -MaxAngle..MaxAngle
           /\ Assign(SetRotation(State, touchState.currentRotation + deltaAngle))
    /\ UNCHANGED budget

\* touchend with no touch left
TouchEnd ==
    /\ touchState.swipeTouch
    /\ Assign(IF touchState.rotationGroup # NoGroup
              THEN [CompleteFaceRotation(State) EXCEPT !.touchState.swipeTouch = FALSE]
              ELSE [State EXCEPT !.touchState.swipeTouch = FALSE])
    /\ UNCHANGED budget

\* an early frame of the snap animation (eased near 0): the angle of the
\* closure goes to touchState and to the rotation group it holds by now
SnapFrame ==
    /\ \E c \in snaps : Assign(SetRotation(State, c.startAngle))
    /\ UNCHANGED budget

\* the last frame of the snap animation: progress = 1
SnapCommit ==
    /\ \E c \in snaps :
           Assign(FinalizeFaceRotation(
                      SetRotation([State EXCEPT !.snaps = @ \ {c}], c.snapAngle),
                      c.snapAngle))
    /\ UNCHANGED budget

NextApp ==
    \/ KeyPressApp
    \/ AnimateCommit
    \/ TouchStart
    \/ TouchMove
    \/ TouchEnd
    \/ SnapFrame
    \/ SnapCommit

\* the page (part_000) under key presses and touch gestures on the faces
SpecApp == Init /\ [][NextApp]_vars

TouchStartWide == TouchStartOf(MaxWideGestures)

\* touchmove of the swipe touch with the wide swipes
TouchMoveWide ==
    /\ touchState.swipeTouch
    /\ touchState.rotationGroup # NoGroup
    /\ \E deltaAngle \in WideAngles :
           /\ touchState.currentRotation + deltaAngle \in -MaxTurn..MaxTurn
           /\ Assign(SetRotation(State, touchState.currentRotation + deltaAngle))
    /\ UNCHANGED budget

NextSnap ==
    \/ TouchStartWide
    \/ TouchMoveWide
    \/ TouchEnd
    \/ SnapFrame
    \/ SnapCommit

\* the page (part_000) under touch gestures that turn a face by more than a
\* quarter turn, and no key press
SpecSnap == Init /\ [][NextSnap]_vars

(***************************************************************************)
(* TouchHandler (touchHandler.js)                                          *)
(***************************************************************************)
\* no face selector: null
NoFace == [axis |-> "null", layer |-> 0]

\* faceInfo of no touch: swipeStartFace = null
NoFaceInfo ==
    [axis |-> "null", layer |-> 0, cubieType |-> "null", neighborFaces |-> <<>>,
     cubie |-> 0]

\* TouchHandler.createInitialState (the positions of the touch are inputs of
\* the handlers); highlightedCubie is a cubie id, 0 for null
CreateInitialState ==
    [activeFaceRotation |-> FALSE, swipeStartFace |-> NoFaceInfo,
     swipeAxis |-> "null", swipeLayer |-> 0, currentRotation |-> 0,
     rotationGroup |-> NoGroup, highlightedCubie |-> 0, originalMaterials |-> "null",
     cornerRotationStarted |-> FALSE, selectedAxis |-> "null", selectedLayer |-> 0]

\* the first of a set of indexes, 0 when there is none (find: undefined)
First(found) ==
    IF found = {} THEN 0 ELSE CHOOSE k \in found : \A j \in found : k <= j

Abs(x) == IF x < 0 THEN -x ELSE x

\* neighborFaces.find(f => f.axis === 'y'), as an index
FindY(neighborFaces) ==
    First({k \in 1..Len(neighborFaces) : neighborFaces[k].axis = "y"})

\* neighborFaces.find(f => f.axis !== 'y'), as an index
FindNotY(neighborFaces) ==
    First({k \in 1..Len(neighborFaces) : neighborFaces[k].axis # "y"})

\* variant: the swipe direction is not looked at
SelectCornerNeighbor_First(neighborFaces, deltaX, deltaY) ==
    IF Len(neighborFaces) = 0 THEN NoFace ELSE neighborFaces[1]

\* selectCornerNeighborBySwipeDirection of RubiksCube, selectCornerNeighbor of
\* TouchHandler (the same code); a missing list is the empty one
SelectCornerNeighbor(neighborFaces, deltaX, deltaY) ==
    IF Len(neighborFaces) = 0 THEN NoFace
    ELSE LET isHorizontalSwipe == Abs(deltaX) > Abs(deltaY)
             yNeighbor == FindY(neighborFaces)
             sideNeighbor == FindNotY(neighborFaces) IN
         IF isHorizontalSwipe /\ yNeighbor # 0 THEN neighborFaces[yNeighbor]
         ELSE IF ~isHorizontalSwipe /\ sideNeighbor # 0 THEN neighborFaces[sideNeighbor]
         ELSE neighborFaces[1]

\* variant: HighlightManager.highlight, which unhighlights the cubie
\* highlighted before
HighlightCubie_UnhighlightFirst(s, cubie) ==
    LET t == s.touchState
        s1 == IF t.highlightedCubie = 0 \/ t.originalMaterials = "null" THEN s
              ELSE [s EXCEPT !.materials[t.highlightedCubie] = t.originalMaterials]
    IN  [s1 EXCEPT !.touchState = [@ EXCEPT !.highlightedCubie = cubie,
                                            !.originalMaterials = s1.materials[cubie]],
                   !.materials[cubie] = "glow"]

\* highlightCubie: the materials are cloned as they are now into
\* originalMaterials, then the cubie's own materials get the emissive colour
HighlightCubie(s, cubie) ==
    IF cubie = 0 THEN s
    ELSE [s EXCEPT !.touchState = [@ EXCEPT !.highlightedCubie = cubie,
                                            !.originalMaterials = s.materials[cubie]],
                   !.materials[cubie] = "glow"]

\* unhighlightCubie: cubie.material = originalMaterials
UnhighlightCubie(s) ==
    IF s.touchState.highlightedCubie = 0 \/ s.touchState.originalMaterials = "null" THEN s
    ELSE [s EXCEPT !.materials[s.touchState.highlightedCubie] =
                       s.touchState.originalMaterials,
                   !.touchState = [@ EXCEPT !.highlightedCubie = 0,
                                            !.originalMaterials = "null"]]

\* onTouchStart with a touch that hits the cubie face faceInfo
OnTouchStart(s, faceInfo) ==
    HighlightCubie([s EXCEPT !.touchState = [@ EXCEPT !.swipeStartFace = faceInfo,
                                                      !.activeFaceRotation = TRUE]],
                   faceInfo.cubie)

\* calculateRotationAngle: (deltaX + deltaY) * 0.01 rad, in whole degrees
CalculateRotationAngle(deltaX, deltaY) == (((deltaX + deltaY) * 573) + 500) \div 1000

\* updateFaceRotation(deltaAngle)
UpdateFaceRotation(s, deltaAngle) ==
    IF s.touchState.rotationGroup = NoGroup \/ s.touchState.swipeAxis = "null" THEN s
    ELSE SetRotation(s, s.touchState.currentRotation + deltaAngle)

\* onTouchMove with the touch (deltaX, deltaY) away from swipeStartPos
OnTouchMove(s, deltaX, deltaY) ==
    LET t == s.touchState
        faceInfo == t.swipeStartFace IN
    IF ~t.activeFaceRotation \/ faceInfo = NoFaceInfo THEN s
    ELSE IF deltaX * deltaX + deltaY * deltaY < 10 * 10 THEN s
    ELSE LET selectedNeighbor ==
                 SelectCornerNeighbor(faceInfo.neighborFaces, deltaX, deltaY)
             s1 == IF faceInfo.cubieType = "corner" /\ ~t.cornerRotationStarted
                   THEN IF selectedNeighbor # NoFace
                        THEN StartFaceRotation(
                                 [s EXCEPT !.touchState =
                                      [@ EXCEPT !.selectedAxis = selectedNeighbor.axis,
                                                !.selectedLayer = selectedNeighbor.layer,
                                                !.cornerRotationStarted = TRUE]],
                                 selectedNeighbor.axis, selectedNeighbor.layer)
                        ELSE s
                   ELSE IF faceInfo.cubieType # "corner" /\ t.rotationGroup = NoGroup
                   THEN StartFaceRotation(s, faceInfo.axis, faceInfo.layer)
                   ELSE s IN
         IF s1.touchState.rotationGroup # NoGroup
         THEN UpdateFaceRotation(s1, CalculateRotationAngle(deltaX, deltaY))
         ELSE s1

\* finalizeFaceRotation: this.onFinalize(finalAngle, this.touchState); the
\* call is noted with the touchState fields the commit needs
HandlerFinalizeFaceRotation(s, finalAngle) ==
    [s EXCEPT !.finalizeCalls = Append(@, [finalAngle |-> finalAngle,
                                           axis |-> s.touchState.swipeAxis,
                                           layer |-> s.touchState.swipeLayer,
                                           group |-> s.touchState.rotationGroup])]

\* completeFaceRotation: finalize at once, or animateToSnap (whose first
\* animate() call leaves the angle at startAngle and a frame pending)
HandlerCompleteFaceRotation(s) ==
    IF s.touchState.rotationGroup = NoGroup \/ s.touchState.swipeAxis = "null" THEN s
    ELSE LET currentAngle == s.touchState.currentRotation
             snapAngle == QuarterTurns(currentAngle) * 90 IN
         IF snapAngle = currentAngle
         THEN HandlerFinalizeFaceRotation(s, snapAngle)
         ELSE [s EXCEPT !.snaps = @ \cup {[startAngle |-> currentAngle,
                                            snapAngle |-> snapAngle,
                                            group |-> s.touchState.rotationGroup]}]

\* onTouchEnd: unhighlight, completeFaceRotation, reset
OnTouchEnd(s) ==
    LET s1 == IF s.touchState.highlightedCubie # 0 THEN UnhighlightCubie(s) ELSE s
        s2 == IF s1.touchState.rotationGroup # NoGroup
              THEN HandlerCompleteFaceRotation(s1) ELSE s1 IN
    [s2 EXCEPT !.touchState = CreateInitialState]

\* the cubie created at the grid position pos
CubieAt(pos) == CHOOSE i \in Ids : CanonPos(i) = pos

\* the faces touched in the handler specification: an edge cubie of the U
\* face, the centre of the F face, the corner (1,1,1) on the U face (the
\* handler leaves the commit to onFinalize, so each cubie stays where it was
\* created)
HandlerFaces ==
    {[axis |-> "y", layer |-> 1, cubieType |-> "edge",
      neighborFaces |-> <<[axis |-> "z", layer |-> 1]>>, cubie |-> CubieAt(<<0, 1, 1>>)],
     [axis |-> "z", layer |-> 1, cubieType |-> "center", neighborFaces |-> <<>>,
      cubie |-> CubieAt(<<0, 0, 1>>)],
     [axis |-> "y", layer |-> 1, cubieType |-> "corner",
      neighborFaces |-> <<[axis |-> "x", layer |-> 1], [axis |-> "z", layer |-> 1]>>,
      cubie |-> CubieAt(<<1, 1, 1>>)]}

\* the pixels a touch moves between two touchmove events
SwipePixels == {-70, 0, 70}

MaxHighlightGestures == 2

InitHandler ==
    /\ cubies = SolvedCubies
    /\ moveHistory = <<>>
    /\ isAnimating = FALSE
    /\ animationQueue = <<>>
    /\ anims = {}
    /\ chain = NoChain
    /\ status = "Ready"
    /\ nreq = 0
    /\ budget = 0
    /\ log = <<>>
    /\ touchState = CreateInitialState
    /\ groups = <<>>
    /\ snaps = {}
    /\ finalizeCalls = <<>>
    /\ materials = NewMaterials
    /\ buttons = EnabledButtons
    /\ call = NoCall

HandlerTouchStart ==
    /\ ~touchState.activeFaceRotation
    /\ budget < MaxHandlerGestures
    /\ \E faceInfo \in HandlerFaces : Assign(OnTouchStart(State, faceInfo))
    /\ budget' = budget + 1

HandlerTouchMove ==
    /\ touchState.activeFaceRotation
    /\ \E deltaX \in SwipePixels, deltaY \in SwipePixels :
           /\ touchState.currentRotation + CalculateRotationAngle(deltaX, deltaY)
                  \in -MaxAngle..MaxAngle
           /\ Assign(OnTouchMove(State, deltaX, deltaY))
    /\ UNCHANGED budget

HandlerTouchEnd ==
    /\ touchState.activeFaceRotation
    /\ Assign(OnTouchEnd(State))
    /\ UNCHANGED budget

\* a frame of animateToSnap's animate() with progress < 1 (eased near 0)
HandlerSnapFrame ==
    /\ \E c \in snaps : Assign(SetRotation(State, c.startAngle))
    /\ UNCHANGED budget

\* the frame of animateToSnap's animate() with progress = 1
HandlerSnapCommit ==
    /\ \E c \in snaps :
           Assign(HandlerFinalizeFaceRotation(
                      SetRotation([State EXCEPT !.snaps = @ \ {c}], c.snapAngle),
                      c.snapAngle))
    /\ UNCHANGED budget

\* touchstart while a touch is already down (a second finger lands): the
\* handler looks at touches[0] again, on whichever of the faces it is now
HandlerTouchStartAgain ==
    /\ touchState.activeFaceRotation
    /\ budget < MaxHighlightGestures
    /\ \E faceInfo \in HandlerFaces : Assign(OnTouchStart(State, faceInfo))
    /\ budget' = budget + 1

HandlerTouchStartFirst ==
    /\ ~touchState.activeFaceRotation
    /\ budget < MaxHighlightGestures
    /\ \E faceInfo \in HandlerFaces : Assign(OnTouchStart(State, faceInfo))
    /\ budget' = budget + 1

NextHandler ==
    \/ HandlerTouchStart
    \/ HandlerTouchMove
    \/ HandlerTouchEnd
    \/ HandlerSnapFrame
    \/ HandlerSnapCommit

\* the TouchHandler under single-touch gestures
SpecHandler == InitHandler /\ [][NextHandler]_vars

NextHighlight ==
    \/ HandlerTouchStartFirst
    \/ HandlerTouchStartAgain
    \/ HandlerTouchMove
    \/ HandlerTouchEnd
    \/ HandlerSnapFrame
    \/ HandlerSnapCommit

\* the TouchHandler under gestures during which a second touch may land
SpecHighlight == InitHandler /\ [][NextHighlight]_vars

(***************************************************************************)
(* Helper functions of RubiksCube called on drawn arguments                *)
(***************************************************************************)
\* the face selectors the neighbor lists are made of
FaceSelectors ==
    {[axis |-> "y", layer |-> 1], [axis |-> "y", layer |-> -1],
     [axis |-> "x", layer |-> 1], [axis |-> "z", layer |-> -1]}

\* the sequences over S of length at most n
RECURSIVE SeqsUpTo(_, _)
SeqsUpTo(S, n) ==
    IF n = 0 THEN {<<>>}
    ELSE LET shorter == SeqsUpTo(S, n - 1) IN
         shorter \cup {Append(q, x) : q \in shorter, x \in S}

\* a call of selectCornerNeighborBySwipeDirection about to be made, on a
\* fresh cube
InitCorner ==
    /\ cubies = SolvedCubies
    /\ moveHistory = <<>>
    /\ isAnimating = FALSE
    /\ animationQueue = <<>>
    /\ anims = {}
    /\ chain = NoChain
    /\ status = "Ready"
    /\ nreq = 0
    /\ budget = 0
    /\ log = <<>>
    /\ touchState = NoTouch
    /\ groups = <<>>
    /\ snaps = {}
    /\ finalizeCalls = <<>>
    /\ materials = NewMaterials
    /\ buttons = EnabledButtons
    /\ call \in {[fn |-> "selectCornerNeighborBySwipeDirection",
                  neighborFaces |-> n, deltaX |-> dx, deltaY |-> dy,
                  done |-> FALSE, result |-> NoFace] :
                     n \in SeqsUpTo(FaceSelectors, MaxNeighbors),
                     dx \in -MaxDelta..MaxDelta, dy \in -MaxDelta..MaxDelta}

\* rubiksCube.selectCornerNeighborBySwipeDirection(neighborFaces, deltaX, deltaY)
SelectCornerNeighborCall ==
    /\ call.fn = "selectCornerNeighborBySwipeDirection"
    /\ ~call.done
    /\ call' = [call EXCEPT !.done = TRUE,
                            !.result = SelectCornerNeighbor(call.neighborFaces,
                                                            call.deltaX, call.deltaY)]
    /\ UNCHANGED <<cubies, moveHistory, isAnimating, animationQueue, anims, chain,
                   status, nreq, budget, log, touchState, groups, snaps,
                   finalizeCalls, materials, buttons>>

NextCorner == SelectCornerNeighborCall

\* selectCornerNeighborBySwipeDirection on every drawn neighbor list and swipe
SpecCorner == InitCorner /\ [][NextCorner]_vars

\* the six outer faces in the order getCubieTypeAndNeighbors tests them
OuterFaces ==
    << [axis |-> "y", layer |-> 1], [axis |-> "y", layer |-> -1],
       [axis |-> "x", layer |-> 1], [axis |-> "x", layer |-> -1],
       [axis |-> "z", layer |-> 1], [axis |-> "z", layer |-> -1] >>

\* getCubieTypeAndNeighbors(clickedAxis, clickedLayer, cubiePos), the position
\* in grid units
GetCubieTypeAndNeighbors(clickedAxis, clickedLayer, cubiePos) ==
    LET Touches(f) == cubiePos[AxisIndex(f.axis)] = f.layer
        NotClicked(f) == ~(f.axis = clickedAxis /\ f.layer = clickedLayer)
        faces == SelectSeq(OuterFaces, Touches) IN
    [cubieType |-> IF Len(faces) = 1 THEN "center"
                   ELSE IF Len(faces) = 2 THEN "edge" ELSE "corner",
     neighborFaces |-> SelectSeq(faces, NotClicked)]

\* a fresh cube and a call of a helper function, drawn from calls, about to
\* be made
InitCall(calls) ==
    /\ cubies = SolvedCubies
    /\ moveHistory = <<>>
    /\ isAnimating = FALSE
    /\ animationQueue = <<>>
    /\ anims = {}
    /\ chain = NoChain
    /\ status = "Ready"
    /\ nreq = 0
    /\ budget = 0
    /\ log = <<>>
    /\ touchState = NoTouch
    /\ groups = <<>>
    /\ snaps = {}
    /\ finalizeCalls = <<>>
    /\ materials = NewMaterials
    /\ buttons = EnabledButtons
    /\ call \in calls

\* a helper call returns: nothing but the call changes
Return(result) ==
    /\ ~call.done
    /\ call' = [call EXCEPT !.done = TRUE, !.result = result]
    /\ UNCHANGED <<cubies, moveHistory, isAnimating, animationQueue, anims, chain,
                   status, nreq, budget, log, touchState, groups, snaps,
                   finalizeCalls, materials, buttons>>

\* every grid position with every clicked outer face
InitClassify ==
    InitCall({[fn |-> "getCubieTypeAndNeighbors", clickedAxis |-> a,
               clickedLayer |-> l, cubiePos |-> p, done |-> FALSE,
               result |-> [cubieType |-> "null", neighborFaces |-> <<>>]] :
                  a \in Axes, l \in {-1, 1},
                  p \in {<<x, y, z>> : x \in Layers, y \in Layers, z \in Layers}})

\* rubiksCube.getCubieTypeAndNeighbors(clickedAxis, clickedLayer, cubiePos)
GetCubieTypeAndNeighborsCall ==
    /\ call.fn = "getCubieTypeAndNeighbors"
    /\ Return(GetCubieTypeAndNeighbors(call.clickedAxis, call.clickedLayer,
                                       call.cubiePos))

NextClassify == GetCubieTypeAndNeighborsCall

\* getCubieTypeAndNeighbors on every grid position and clicked face
SpecClassify == InitClassify /\ [][NextClassify]_vars

RotateFaceCallFaces == RotateFaceCallOf(MaxFaceRequests)

NextFaces ==
    \/ RotateFaceCallFaces
    \/ AnimateCommit

\* RubiksCube (cube.js) under rotateFace calls of every axis, layer and
\* direction alone
SpecFaces == Init /\ [][NextFaces]_vars

(***************************************************************************)
(* The orientation-aware keyboard mapping (part_001)                       *)
(***************************************************************************)

\* cubeGroup.rotation: the Euler angles (x, y, z), order 'XYZ', each a number
\* of quarter turns
QuarterTurns4 == 0..3
ViewRotations == {<<x, y, z>> : x \in QuarterTurns4, y \in QuarterTurns4, z \in QuarterTurns4}

\* vec.applyQuaternion(q) with q = setFromEuler(rotation): the turn about z
\* acts first, then the one about y, then the one about x
ApplyQuaternion(rotation, vec) ==
    RotateRound("x", 90 * rotation[1],
        RotateRound("y", 90 * rotation[2],
            RotateRound("z", 90 * rotation[3], vec)))

\* variant: the quaternion is not inverted
ApplyInverseQuaternion_NotInverted(rotation, vec) == ApplyQuaternion(rotation, vec)

\* vec.applyQuaternion(getCubeInverseQuaternion())
ApplyInverseQuaternion(rotation, vec) ==
    RotateRound("z", -90 * rotation[3],
        RotateRound("y", -90 * rotation[2],
            RotateRound("x", -90 * rotation[1], vec)))

GetFaceFromVector(vec) ==
    LET absX == Abs(vec[1])
        absY == Abs(vec[2])
        absZ == Abs(vec[3])
    IN  IF absZ >= absX /\ absZ >= absY
        THEN (IF vec[3] > 0 THEN "F" ELSE "B")
        ELSE IF absX >= absY
        THEN (IF vec[1] > 0 THEN "R" ELSE "L")
        ELSE (IF vec[2] > 0 THEN "U" ELSE "D")

\* the 6 direction vectors of getCurrentFaceMapping
RelativeDirections ==
    [dir \in {"front", "back", "right", "left", "up", "down"} |->
        CASE dir = "front" -> <<0, 0, 1>>
          [] dir = "back"  -> <<0, 0, -1>>
          [] dir = "right" -> <<1, 0, 0>>
          [] dir = "left"  -> <<-1, 0, 0>>
          [] dir = "up"    -> <<0, 1, 0>>
          [] dir = "down"  -> <<0, -1, 0>>]

GetCurrentFaceMapping(rotation) ==
    [dir \in DOMAIN RelativeDirections |->
        GetFaceFromVector(ApplyInverseQuaternion(rotation, RelativeDirections[dir]))]

KEY_TO_RELATIVE ==
    [key \in {"F", "B", "R", "L", "U", "D"} |->
        CASE key = "F" -> "front"
          [] key = "B" -> "back"
          [] key = "R" -> "right"
          [] key = "L" -> "left"
          [] key = "U" -> "up"
          [] key = "D" -> "down"]

\* the prime suffix
Prime(face) ==
    CASE face = "R" -> "R'" [] face = "L" -> "L'" [] face = "U" -> "U'"
      [] face = "D" -> "D'" [] face = "F" -> "F'" [] face = "B" -> "B'"

GetOrientedMove(rotation, key, isPrime) ==
    IF key \notin DOMAIN KEY_TO_RELATIVE THEN "null"
    ELSE LET actualFace == GetCurrentFaceMapping(rotation)[KEY_TO_RELATIVE[key]]
         IN  IF isPrime THEN Prime(actualFace) ELSE actualFace

\* e.key of the keys pressed, and e.key.toUpperCase()
Keys == {"f", "b", "r", "l", "u", "d", "F", "B", "R", "L", "U", "D", "x"}

ToUpperCase(key) ==
    CASE key = "f" -> "F" [] key = "b" -> "B" [] key = "r" -> "R"
      [] key = "l" -> "L" [] key = "u" -> "U" [] key = "d" -> "D"
      [] key = "x" -> "X" [] OTHER -> key

validMoves == {"R", "U", "D", "L", "F", "B"}

\* a fresh cube seen under every view rotation, and a key about to be pressed
InitView ==
    InitCall({[fn |-> "keydown", rotation |-> r, key |-> k, shiftKey |-> sh,
               done |-> FALSE, result |-> "null"] :
                  r \in ViewRotations, k \in Keys, sh \in BOOLEAN})

\* the keydown listener (outside an input field); result is the move name
\* handed to executeMove
Keydown ==
    /\ call.fn = "keydown"
    /\ ~call.done
    /\ LET key == ToUpperCase(call.key)
           moveName == GetOrientedMove(call.rotation, key, call.shiftKey)
       IN  IF key \in validMoves /\ moveName # "null"
           THEN /\ AssignState(ExecuteMove(State, moveName, TRUE, "null"))
                /\ call' = [call EXCEPT !.done = TRUE, !.result = moveName]
           ELSE /\ AssignState(State)
                /\ call' = [call EXCEPT !.done = TRUE]
    /\ UNCHANGED budget

NextView ==
    \/ Keydown
    \/ AnimateCommit

\* the page's keyboard control alone, under every view rotation
SpecView == InitView /\ [][NextView]_vars

\* what getFaceFromTouch gives for one touch of a touchstart: a face of a
\* centre or an edge cubie, or null
TouchHits == TouchFaces \cup {<<"null", 0>>}

MaxPointerGestures == 2

\* touchstart with two touches (part_000): touches[0] locks the cube,
\* touches[1] is the swipe touch, and getFaceFromTouch is asked about
\* touches[1] alone; hits[1], hits[2] are what it would give for touches[0]
\* and touches[1]
TouchStartPointers ==
    /\ ~touchState.swipeTouch
    /\ Len(groups) < MaxPointerGestures
    /\ \E hits \in TouchHits \X TouchHits :
           LET faceInfo == hits[2]
               locked == [State EXCEPT !.touchState.swipeTouch = TRUE]
           IN  /\ AssignState(IF faceInfo # <<"null", 0>>
                              THEN StartFaceRotation(locked, faceInfo[1], faceInfo[2])
                              ELSE locked)
               /\ call' = [fn |-> "touchstart", touches |-> hits]
    /\ UNCHANGED budget

NextPointers ==
    \/ TouchStartPointers
    \/ TouchMove
    \/ TouchEnd
    \/ SnapFrame
    \/ SnapCommit

\* the page (part_000) under two-finger gestures, each finger on or off the cube
SpecPointers == Init /\ [][NextPointers]_vars

\* names outside the 12 of the move table handed to executeMove
MalformedNames == {"X", "r", "R2", "", "constructor"}

MaxNameRequests == 3

\* a caller's rubiksCube.executeMove(moveName) with a name of the table or not
ExecuteMoveCall ==
    /\ budget < MaxNameRequests
    /\ \E moveName \in QueueNames \cup MalformedNames :
           Assign(ExecuteMove(State, moveName, TRUE, "null"))
    /\ budget' = budget + 1

NextNames ==
    \/ ExecuteMoveCall
    \/ AnimateFrame
    \/ AnimateCommit

\* RubiksCube (cube.js) under executeMove calls with names of the move table
\* and names outside it
SpecNames == Init /\ [][NextNames]_vars

MaxTableRequests == 2

\* executeMove calls with every name of the move table
ExecuteMoveTable == KeyPressOf(MoveNames, MaxTableRequests)

NextTable ==
    \/ ExecuteMoveTable
    \/ AnimateCommit

\* RubiksCube (cube.js) under executeMove calls with the 12 names of MOVES
SpecTable == Init /\ [][NextTable]_vars

(***************************************************************************)
(* RotationStrategyFactory (rotationStrategy.js)                           *)
(***************************************************************************)
\* this.strategies of the constructor: three strategy objects, each made once
strategies ==
    [t \in {"center", "edge", "corner"} |->
        CASE t = "center" -> [class |-> "StandardRotationStrategy", instance |-> 1]
          [] t = "edge"   -> [class |-> "StandardRotationStrategy", instance |-> 2]
          [] t = "corner" -> [class |-> "CornerRotationStrategy", instance |-> 3]]

\* this.strategies[name] for a name the object inherits from Object.prototype:
\* a function
InheritedProperty == [class |-> "Function", instance |-> 0]

\* variant: a new standard strategy is made for the types without an entry
GetStrategy_NewFallback(cubieType, calls) ==
    IF cubieType \in DOMAIN strategies THEN strategies[cubieType]
    ELSE [class |-> "StandardRotationStrategy", instance |-> 4 + calls]

\* return this.strategies[cubieType] || this.strategies['center'] (calls: the
\* number of calls made before)
GetStrategy(cubieType, calls) ==
    IF cubieType \in DOMAIN strategies THEN strategies[cubieType]
    ELSE IF cubieType \in InheritedNames THEN InheritedProperty
    ELSE strategies["center"]

\* the cubie types getStrategy is called with
CubieTypes == {"center", "edge", "corner", "middle", "", "undefined", "Corner", "constructor"}

MaxStrategyCalls == 3

\* a factory just constructed, no call made
InitStrategy == InitCall({[fn |-> "getStrategy", args |-> <<>>, results |-> <<>>]})

\* factory.getStrategy(cubieType)
GetStrategyCall ==
    /\ call.fn = "getStrategy"
    /\ Len(call.args) < MaxStrategyCalls
    /\ \E cubieType \in CubieTypes :
           call' = [call EXCEPT !.args = Append(@, cubieType),
                                !.results = Append(@, GetStrategy(cubieType, Len(call.args)))]
    /\ AssignState(State)
    /\ UNCHANGED budget

NextStrategy == GetStrategyCall

\* one RotationStrategyFactory under getStrategy calls
SpecStrategy == InitStrategy /\ [][NextStrategy]_vars

MaxUIRequests == 3

\* keydown of the page
KeyPressUI == KeyPressOf(QueueNames, MaxUIRequests)

\* scramble() of script.js (scrambleBtn click, or a call)
ScrambleClickUI ==
    /\ budget + ScrambleLen <= MaxUIRequests
    /\ \E scrambleMoves \in [1..ScrambleLen -> QueueNames] :
           Assign(ScrambleScript(State, scrambleMoves))
    /\ budget' = IF Busy(State) THEN budget ELSE budget + ScrambleLen

\* solve() of script.js (solveBtn click, or a call)
SolveClickUI ==
    /\ Assign(SolveScript(State))
    /\ UNCHANGED budget

\* reset() of script.js (resetBtn click, or a call)
ResetClickUI ==
    /\ Assign(ResetScript(State))
    /\ UNCHANGED budget

NextUI ==
    \/ KeyPressUI
    \/ AnimateFrame
    \/ AnimateCommit
    \/ ScrambleClickUI
    \/ SolveClickUI
    \/ ResetClickUI

\* the page script (script.js) with its buttons, under the browser's frame
\* scheduling (weak fairness of AnimateCommit, as in SpecQFair)
SpecUI == Init /\ [][NextUI]_vars /\ ([]<>(anims = {}) \/ []<><<AnimateCommit>>_vars)

TouchStartRecord == TouchStartOf(MaxRecordGestures)

\* touchmove of the swipe touch with the swipes of half a turn, of a quarter
\* turn back and of a quarter of a quarter turn
TouchMoveRecord ==
    /\ touchState.swipeTouch
    /\ touchState.rotationGroup # NoGroup
    /\ \E deltaAngle \in RecordAngles :
           /\ touchState.currentRotation + deltaAngle \in -MaxRecordTurn..MaxRecordTurn
           /\ Assign(SetRotation(State, touchState.currentRotation + deltaAngle))
    /\ UNCHANGED budget

NextRecord ==
    \/ TouchStartRecord
    \/ TouchMoveRecord
    \/ TouchEnd
    \/ SnapFrame
    \/ SnapCommit

\* the page (part_000) under touch gestures that turn a face both ways, up to
\* a full turn and more, and no key press
SpecRecord == Init /\ [][NextRecord]_vars

\* a caller's rubiksCube.executeMove(moveName, true, callback), with a
\* callback of its own for each request
ExecuteMoveCallback ==
    /\ budget < MaxCallbackRequests
    /\ \E moveName \in QueueNames :
           Assign(ExecuteMove(State, moveName, TRUE, CallbackOf(nreq + 1)))
    /\ budget' = budget + 1

ScrambleClickCallback == ScrambleOf(QueueNames, MaxCallbackRequests)

NextCallback ==
    \/ ExecuteMoveCallback
    \/ ScrambleClickCallback
    \/ AnimateFrame
    \/ AnimateCommit

\* RubiksCube (cube.js) under scrambles and callers that pass a completion
\* callback with every move, with the browser's frame scheduling
SpecCallback ==
    Init /\ [][NextCallback]_vars /\ ([]<>(anims = {}) \/ []<><<AnimateCommit>>_vars)

(***************************************************************************)
(* Touch gestures of the page with corner cubies and a third finger        *)
(***************************************************************************)
\* touchState of the page (part_000 1289-1305) before any touch; touches is
\* e.touches.length, rotationAxis and rotationLayer are the constants of the
\* last touchmove of the gesture ("null" when it has set no angle yet)
NoTargetTouch ==
    [swipeTouch |-> FALSE, touches |-> 0, swipeStartFace |-> NoFaceInfo,
     swipeAxis |-> "null", swipeLayer |-> 0, currentRotation |-> 0,
     rotationGroup |-> NoGroup, cornerRotationStarted |-> FALSE,
     selectedAxis |-> "null", selectedLayer |-> 0,
     rotationAxis |-> "null", rotationLayer |-> 0]

\* the cubie faces the swipe touch lands on: an edge cubie of the U face, and
\* the corner (1,1,1) on its F face
TargetFaces ==
    {[axis |-> "y", layer |-> 1, cubieType |-> "edge",
      neighborFaces |-> <<[axis |-> "z", layer |-> 1]>>, cubie |-> CubieAt(<<0, 1, 1>>)],
     [axis |-> "z", layer |-> 1, cubieType |-> "corner",
      neighborFaces |-> <<[axis |-> "x", layer |-> 1], [axis |-> "y", layer |-> 1]>>,
      cubie |-> CubieAt(<<1, 1, 1>>)]}

\* the displacement since touch-down, and the angle calculateTouchRotationAngle
\* gives, of one touchmove
TargetSwipes == {<<70, 0>>, <<0, 70>>}
TargetAngles == {40, -80}

\* the gesture on faceInfo begins: for a corner cubie the rotation waits for
\* the swipe direction, for a centre or edge cubie it starts with the face
BeginSwipe(s, faceInfo) ==
    LET s1 == [s EXCEPT !.touchState = [@ EXCEPT !.swipeStartFace = faceInfo,
                                                 !.rotationAxis = "null",
                                                 !.rotationLayer = 0]] IN
    IF faceInfo.cubieType = "corner"
    THEN [s1 EXCEPT !.touchState = [@ EXCEPT !.cornerRotationStarted = FALSE,
                                             !.selectedAxis = "null",
                                             !.selectedLayer = 0]]
    ELSE StartFaceRotation([s1 EXCEPT !.touchState.cornerRotationStarted = TRUE],
                           faceInfo.axis, faceInfo.layer)

\* touchstart with two touches, the second on the cubie face faceInfo
PageTouchStart(s, faceInfo) ==
    BeginSwipe([s EXCEPT !.touchState = [@ EXCEPT !.swipeTouch = TRUE, !.touches = 2]],
               faceInfo)

\* touchState.currentRotation += deltaAngle;
\* switch (rotationAxis) { case ...: rotationGroup.rotation[rotationAxis] = ... }
SetRotationAbout(s, rotationAxis, rotationLayer, angle) ==
    LET g == -s.touchState.rotationGroup
        s1 == [s EXCEPT !.touchState = [@ EXCEPT !.currentRotation = angle,
                                                 !.rotationAxis = rotationAxis,
                                                 !.rotationLayer = rotationLayer]] IN
    IF rotationAxis = s.groups[g].axis
    THEN [s1 EXCEPT !.groups = [@ EXCEPT ![g].angle = angle]]
    ELSE [s1 EXCEPT !.groups = [@ EXCEPT ![g] = [axis |-> @.axis, layer |-> @.layer,
                                                 angle |-> @.angle,
                                                 strayAxis |-> rotationAxis,
                                                 strayAngle |-> angle]]]

\* touchmove with two touches, the swipe touch moved past the threshold:
\* (totalDeltaX, totalDeltaY) from the initial position, deltaAngle the angle
\* of the move
PageTouchMove(s, totalDeltaX, totalDeltaY, deltaAngle) ==
    LET t == s.touchState
        faceInfo == t.swipeStartFace
        selectedFace == SelectCornerNeighbor(faceInfo.neighborFaces, totalDeltaX, totalDeltaY)
        s1 == IF faceInfo.cubieType = "corner" /\ ~t.cornerRotationStarted
                 /\ selectedFace # NoFace
              THEN [StartFaceRotation(
                        [s EXCEPT !.touchState = [@ EXCEPT !.selectedAxis = selectedFace.axis,
                                                           !.selectedLayer = selectedFace.layer]],
                        selectedFace.axis, selectedFace.layer)
                    EXCEPT !.touchState.cornerRotationStarted = TRUE]
              ELSE s
        t1 == s1.touchState
        rotationAxis == IF t1.selectedAxis # "null" THEN t1.selectedAxis ELSE faceInfo.axis
        rotationLayer == IF t1.selectedLayer # 0 THEN t1.selectedLayer ELSE faceInfo.layer
    IN  IF ~t.swipeTouch \/ faceInfo = NoFaceInfo THEN s
        ELSE IF t1.rotationGroup # NoGroup
        THEN SetRotationAbout(s1, rotationAxis, rotationLayer,
                              t1.currentRotation + deltaAngle)
        ELSE s1

\* touchend with no touch left
PageTouchEnd(s) ==
    LET s1 == IF s.touchState.swipeTouch /\ s.touchState.rotationGroup # NoGroup
              THEN CompleteFaceRotation(s) ELSE s IN
    [s1 EXCEPT !.touchState = [@ EXCEPT !.swipeTouch = FALSE, !.touches = 0,
                                        !.swipeStartFace = NoFaceInfo,
                                        !.cornerRotationStarted = FALSE,
                                        !.selectedAxis = "null", !.selectedLayer = 0,
                                        !.rotationAxis = "null", !.rotationLayer = 0]]

\* touchend with two touches left, the lock touch gone: the swipe touch
\* becomes the lock touch and the third touch the swipe touch, on the cubie
\* face faceInfo (NoFaceInfo when it is on no cubie)
PageTouchEndPromote(s, faceInfo) ==
    LET s0 == [s EXCEPT !.touchState.touches = 2] IN
    IF faceInfo # NoFaceInfo
    THEN BeginSwipe(IF s0.touchState.rotationGroup # NoGroup
                    THEN CompleteFaceRotation(s0) ELSE s0,
                    faceInfo)
    ELSE [s0 EXCEPT !.touchState = [@ EXCEPT !.cornerRotationStarted = FALSE,
                                             !.selectedAxis = "null",
                                             !.selectedLayer = 0]]

InitTarget ==
    /\ cubies = SolvedCubies
    /\ moveHistory = <<>>
    /\ isAnimating = FALSE
    /\ animationQueue = <<>>
    /\ anims = {}
    /\ chain = NoChain
    /\ status = "Ready"
    /\ nreq = 0
    /\ budget = 0
    /\ log = <<>>
    /\ touchState = NoTargetTouch
    /\ groups = <<>>
    /\ snaps = {}
    /\ finalizeCalls = <<>>
    /\ materials = NewMaterials
    /\ buttons = EnabledButtons
    /\ call = NoCall

\* budget counts the touch-downs of a swipe touch and the take-overs by a
\* third touch
TargetTouchStart ==
    /\ touchState.touches = 0
    /\ budget < MaxTargetGestures
    /\ \E faceInfo \in TargetFaces : Assign(PageTouchStart(State, faceInfo))
    /\ budget' = budget + 1

\* touchstart with three touches: the handler does nothing
TargetThirdTouch ==
    /\ touchState.touches = 2
    /\ Assign([State EXCEPT !.touchState.touches = 3])
    /\ UNCHANGED budget

TargetTouchMove ==
    /\ touchState.touches = 2
    /\ \E d \in TargetSwipes, deltaAngle \in TargetAngles :
           /\ touchState.currentRotation + deltaAngle \in -MaxTargetAngle..MaxTargetAngle
           /\ Assign(PageTouchMove(State, d[1], d[2], deltaAngle))
    /\ UNCHANGED budget

TargetTouchEnd ==
    /\ touchState.touches > 0
    /\ Assign(PageTouchEnd(State))
    /\ UNCHANGED budget

TargetTouchEndPromote ==
    /\ touchState.touches = 3
    /\ budget < MaxTargetGestures
    /\ \E faceInfo \in TargetFaces \cup {NoFaceInfo} :
           Assign(PageTouchEndPromote(State, faceInfo))
    /\ budget' = budget + 1

NextTarget ==
    \/ TargetTouchStart
    \/ TargetThirdTouch
    \/ TargetTouchMove
    \/ TargetTouchEnd
    \/ TargetTouchEndPromote
    \/ SnapFrame
    \/ SnapCommit

\* the page (part_000) under touch gestures on edge and corner cubies, with a
\* third finger that takes the swipe over
SpecTarget == InitTarget /\ [][NextTarget]_vars

\* the eight corner positions of the grid
Corners == {<<x, y, z>> : x \in {-1, 1}, y \in {-1, 1}, z \in {-1, 1}}

\* a swipe on a corner cubie about to be handled: every corner, each of its
\* three outer faces as the clicked face, every swipe (deltaX, deltaY)
InitReach ==
    InitCall({[fn |-> "cornerSwipe", clickedAxis |-> a, clickedLayer |-> p[AxisIndex(a)],
               cubiePos |-> p, deltaX |-> dx, deltaY |-> dy, done |-> FALSE,
               result |-> NoFace] :
                  a \in Axes, p \in Corners,
                  dx \in -MaxDelta..MaxDelta, dy \in -MaxDelta..MaxDelta})

\* the face a swipe on a corner cubie turns: getCubieTypeAndNeighbors at
\* touch-down, selectCornerNeighborBySwipeDirection at the first move
CornerSwipe(clickedAxis, clickedLayer, cubiePos, deltaX, deltaY) ==
    SelectCornerNeighbor(
        GetCubieTypeAndNeighbors(clickedAxis, clickedLayer, cubiePos).neighborFaces,
        deltaX, deltaY)

CornerSwipeCall ==
    /\ call.fn = "cornerSwipe"
    /\ Return(CornerSwipe(call.clickedAxis, call.clickedLayer, call.cubiePos,
                          call.deltaX, call.deltaY))

NextReach == CornerSwipeCall

\* swipes on the corner cubies of a fresh cube
SpecReach == InitReach /\ [][NextReach]_vars

TouchStartReset == TouchStartOf(MaxResetGestures)

\* reset of the page: resetBtn click
ResetClickPage ==
    /\ Assign(ResetScript(State))
    /\ UNCHANGED budget

\* solve of the page (part_000), which reinitializes the cube
SolvePage(s) ==
    IF Busy(s) THEN s
    ELSE EnableButtons([InitCube(DisableButtons([s EXCEPT !.status = "Solving"]))
                        EXCEPT !.status = "Solved"])

SolveClickPage ==
    /\ Assign(SolvePage(State))
    /\ UNCHANGED budget

NextReset ==
    \/ TouchStartReset
    \/ TouchMove
    \/ TouchEnd
    \/ SnapFrame
    \/ SnapCommit
    \/ ResetClickPage
    \/ SolveClickPage

\* the page (part_000) under touch gestures on the faces and clicks on its
\* reset and solve buttons
SpecReset == Init /\ [][NextReset]_vars

\* SpecQ with the browser's frame scheduling: a pending frame callback runs,
\* and the elapsed time reaches the duration, so a rotation in flight commits.
\* This is weak fairness of AnimateCommit, which is enabled exactly when a
\* closure has a frame pending (anims # {}).
SpecQFair == SpecQ /\ ([]<>(anims = {}) \/ []<><<AnimateCommit>>_vars)

(***************************************************************************)
(* Properties                                                              *)
(***************************************************************************)
Idle == ~isAnimating /\ anims = {} /\ animationQueue = <<>>

\* the commits since the last initCube
SinceInit == log

\* two committed moves that are direction-negated copies of each other
Inverse(m, n) == m.axis = n.axis /\ m.layer = n.layer /\ m.direction = -n.direction

\* the grid after rotateFace(axis, layer, direction), called with no rotation
\* in flight on the grid c, has committed
Turned(c, axis, layer, direction) ==
    LET face == GetCubiesOnFace(c, axis, layer) IN
    CommitCubies(Detach(c, face, 1),
                 [axis |-> axis, direction |-> direction, id |-> 1, faceCubies |-> face],
                 <<>>)

\* C2: History-reversal correctness. When solve() has run to completion on a
\* history of N recorded moves made from the solved state (the commits since
\* initCube are N recorded moves followed by the N replayed ones), the replay
\* was the recorded moves in reverse order with each direction negated, and
\* every cubie is back at its canonical position with identity orientation.
C2_HistoryReversal ==
    LET t == SinceInit
        n == Len(t) \div 2
    IN (/\ Idle /\ chain = NoChain /\ status = "Solved"
        /\ Len(t) = 2 * n
        /\ \A k \in 1..n : t[k].record /\ t[n + k].src = "solve")
       => /\ \A k \in 1..n : Inverse(t[k], t[2 * n + 1 - k])
          /\ cubies = SolvedCubies

\* two recorded moves on different axes, one of a middle layer, replayed by
\* solve, cube solved
C2_Witness ==
    /\ Idle /\ status = "Solved" /\ Len(log) = 4
    /\ log[1].record /\ log[2].record /\ log[1].axis # log[2].axis
    /\ log[1].layer = 0 /\ log[2].layer # 0
    /\ log[3].src = "solve" /\ log[4].src = "solve"
    /\ Inverse(log[1], log[4]) /\ Inverse(log[2], log[3])
    /\ cubies = SolvedCubies

\* C4: Move inverse law. From every reachable grid state with no rotation in
\* flight, for every axis, layer in {-1,0,1} and direction, rotateFace(axis,
\* layer, d) then rotateFace(axis, layer, -d), both committed, leave every
\* cubie with the position and orientation it had before.
C4_MoveInverseLaw ==
    Idle => \A axis \in Axes, layer \in Layers, d \in Directions :
                Turned(Turned(cubies, axis, layer, d), axis, layer, -d) = cubies

\* a scrambled grid reached by two committed moves on different axes, from
\* which a move and its negation were then made
C4_Witness ==
    /\ Idle /\ Len(log) = 2 /\ log[1].axis # log[2].axis
    /\ cubies # SolvedCubies
    /\ Turned(cubies, "x", 0, 1) # cubies
    /\ Turned(Turned(cubies, "x", 0, 1), "x", 0, -1) = cubies

\* C5: Single flight. At most one engine rotation is Animating at any time:
\* at most one animate() closure has a frame pending, isAnimating is true
\* exactly while it has, and the cubies detached from the cube frame are
\* exactly the face cubies of that one rotation, in its rotation group.
C5_SingleFlight ==
    /\ Cardinality(anims) <= 1
    /\ isAnimating <=> anims # {}
    /\ \A i \in Ids :
           cubies[i].parent # CubeGroup <=>
               \E a \in anims : i \in a.faceCubies /\ cubies[i].parent = a.id

\* a rotation in flight with two further requests waiting behind it
C5_Witness ==
    /\ isAnimating /\ Cardinality(anims) = 1 /\ Len(animationQueue) = 2
    /\ Cardinality({i \in Ids : cubies[i].parent # CubeGroup}) = 9

\* the requests waiting in the queue or in flight
Pending == {animationQueue[k] : k \in 1..Len(animationQueue)} \cup anims

\* the requests committed so far
Committed == {log[k].id : k \in 1..Len(log)}

\* this step is the commit of the rotation a
Committing(a) == a \in anims /\ \A b \in anims' : b.id # a.id

\* the requests still waiting or in flight after this step
PendingNext == {animationQueue'[k] : k \in 1..Len(animationQueue')} \cup anims'

\* C6: Queueing order. Moves requested, in some order, while the engine is
\* Animating a move m0 commit in that order: no rotation commits while a
\* rotation requested earlier, during the same m0, is still waiting.
C6_QueueingOrder ==
    [][\A a \in anims :
           (Committing(a) /\ a.during # 0)
               => \A e \in PendingNext : ~(e.during = a.during /\ e.id < a.id)]_vars

\* C7: Strict FIFO service. At the commit of a rotation m with requests
\* waiting in the queue, the rotation that starts next is the one at the head
\* of the queue, ahead of anything requested from m's completion callback.
C7_StrictFifo ==
    [][\A a \in anims :
           (Committing(a) /\ animationQueue # <<>>)
               => \E b \in anims' : b.id = Head(animationQueue).id]_vars

\* C8: Order among queued requests. Two entries of the animation queue that
\* both stay in the queue over a step keep their relative order.
C8_QueueOrderKept ==
    [][\A i, j \in 1..Len(animationQueue) :
           \A k, l \in 1..Len(animationQueue') :
               (/\ i < j
                /\ animationQueue'[k].id = animationQueue[i].id
                /\ animationQueue'[l].id = animationQueue[j].id)
                   => k < l]_vars

\* the move of a committed request, as the history holds it
MoveOf(e) == [axis |-> e.axis, layer |-> e.layer, direction |-> e.direction]

C3_ScrambleThenSolve ==
    LET t == SinceInit
        solved == {k \in 1..Len(t) : t[k].src = "solve"}
        first == Len(t) - Cardinality(solved) + 1
    IN (/\ Idle /\ chain = NoChain /\ status = "Solved"
        /\ solved # {} /\ solved = first..Len(t)
        /\ first > ScrambleLen
        /\ \A k \in 1..first - 1 : t[k].record
        /\ \A k \in first - ScrambleLen..first - 1 : t[k].src = "scramble")
       => cubies = SolvedCubies

Grid == {<<x, y, z>> : x \in Layers, y \in Layers, z \in Layers}

\* C1: Grid invariant. Whenever no rotation is in flight (no engine animation
\* and no gesture rotation group), the 27 cubies occupy the 27 points of
\* {-1,0,1}^3 exactly once each.
C1_GridInvariant ==
    (~isAnimating /\ anims = {} /\ touchState.rotationGroup = NoGroup)
        => /\ {cubies[i].pos : i \in Ids} = Grid
           /\ \A i, j \in Ids : cubies[i].pos = cubies[j].pos => i = j

\* C11: Gesture/engine mutual exclusion. A gesture rotation (a gesture
\* rotation group exists, from startFaceRotation to finalizeFaceRotation) and
\* an engine animation (isAnimating) never overlap in time.
C11_MutualExclusion == ~(isAnimating /\ touchState.rotationGroup # NoGroup)

\* C12: A rotation request never fails. A rotateFace call made outside a
\* commit (no closure finishes in the step) while isAnimating is false sets
\* isAnimating and starts the animation of that request, the queue untouched;
\* made while isAnimating is true it appends exactly that one entry to the
\* tail of the queue and leaves grid, history, isAnimating and the animation
\* in flight as they were.
C12_RequestNeverFails ==
    [][(nreq' = nreq + 1 /\ anims \subseteq anims') =>
          IF isAnimating
          THEN /\ Len(animationQueue') = Len(animationQueue) + 1
               /\ SubSeq(animationQueue', 1, Len(animationQueue)) = animationQueue
               /\ animationQueue'[Len(animationQueue')].id = nreq'
               /\ {"axis", "layer", "direction", "record", "callback"}
                      \subseteq DOMAIN animationQueue'[Len(animationQueue')]
               /\ UNCHANGED <<cubies, moveHistory, isAnimating, anims>>
          ELSE /\ isAnimating'
               /\ animationQueue' = animationQueue
               /\ \E a \in anims' :
                      /\ anims' = anims \cup {a}
                      /\ a.id = nreq' /\ a.frames = 0
                      /\ a.faceCubies = GetCubiesOnFace(cubies, a.axis, a.layer)
                      /\ \A i \in a.faceCubies : cubies'[i].parent = a.id]_vars

\* three requests made while the first animates: the first in flight, the
\* other two in the queue in the order they were made
C12_Witness ==
    /\ isAnimating /\ nreq = 3 /\ Len(animationQueue) = 2
    /\ animationQueue[1].id = 2 /\ animationQueue[2].id = 3
    /\ \E a \in anims : a.id = 1

\* the requests of the running chain not yet committed
ChainPending ==
    {a \in anims : a.callback = "doNextMove"}
        \cup {animationQueue[k] : k \in {j \in 1..Len(animationQueue) :
                                              animationQueue[j].callback = "doNextMove"}}

\* C13: solve() with a non-empty history, idle and the queue empty. The live
\* history is emptied in the step that starts the first replay move; the
\* snapshot is replayed in reverse order, each direction negated, record =
\* false, one move at a time (the one pending replay request is the move at
\* the chain's index); no commit of a replay move changes the history; and the
\* completion report (onComplete(false)) is made in the step that commits the
\* last replay move, and in no other step.
C13_SolveReplay ==
    /\ [](chain.kind = "solve" =>
             /\ chain.index < Len(chain.moves)
             /\ Cardinality(ChainPending) = 1
             /\ \A r \in ChainPending :
                    /\ ~r.record
                    /\ Inverse(MoveOf(r), chain.moves[chain.index + 1]))
    /\ [][/\ (chain.kind # "solve" /\ chain'.kind = "solve") =>
                 /\ Idle /\ moveHistory # <<>>
                 /\ moveHistory' = <<>>
                 /\ chain' = [kind |-> "solve", moves |-> Reverse(moveHistory),
                              index |-> 0]
          /\ \A a \in anims :
                 (Committing(a) /\ a.callback = "doNextMove" /\ chain.kind = "solve") =>
                     /\ moveHistory' = moveHistory
                     /\ IF chain.index + 1 = Len(chain.moves)
                        THEN chain' = NoChain /\ status' = "Solved"
                        ELSE chain' = [chain EXCEPT !.index = @ + 1] /\ status' = status
          /\ ((chain.kind = "solve" /\ chain'.kind # "solve")
                  \/ (status' = "Solved" /\ status # "Solved")) =>
                 /\ chain.kind = "solve" /\ chain' = NoChain
                 /\ chain.index + 1 = Len(chain.moves)
                 /\ \E a \in anims : Committing(a) /\ a.callback = "doNextMove"]_vars

\* two different recorded moves, then a solve that has replayed both
C13_Witness ==
    /\ Idle /\ status = "Solved" /\ moveHistory = <<>> /\ Len(log) = 4
    /\ log[1].axis # log[2].axis
    /\ log[3].src = "solve" /\ log[4].src = "solve"
    /\ Inverse(MoveOf(log[3]), MoveOf(log[2])) /\ Inverse(MoveOf(log[4]), MoveOf(log[1]))

\* C14: solve() called when idle with an empty history reports "already
\* solved" (onComplete(true)), a report distinct from the completion report
\* (onComplete(false)); it starts no animation and leaves grid, queue and
\* history unchanged.
C14_AlreadySolved ==
    (~isAnimating /\ animationQueue = <<>> /\ moveHistory = <<>>) =>
        LET t == Solve(State) IN
        /\ t.status = "AlreadySolved"
        /\ t.status # ChainDone("solve", status)
        /\ t = [State EXCEPT !.status = "AlreadySolved"]

\* two moves, a solve that replayed them, and a second solve: already solved
C14_Witness ==
    /\ status = "AlreadySolved" /\ Idle /\ moveHistory = <<>> /\ Len(log) = 4
    /\ log[4].src = "solve"

\* C15: Guarded operations. scramble(), solve() and reset() called while
\* isAnimating is true or the queue is non-empty return without any effect:
\* grid, history, queue, the animation in flight and the status are unchanged
\* and no completion is reported.
C15_GuardedOperations ==
    (isAnimating \/ animationQueue # <<>>) =>
        /\ Solve(State) = State
        /\ Reset(State) = State
        /\ \A scrambleMoves \in [1..ScrambleLen -> QueueNames] :
               ScrambleWith(State, scrambleMoves) = State

\* a rotation in flight, with a history that solve would replay and reset
\* would empty
C15_Witness ==
    /\ isAnimating /\ anims # {} /\ moveHistory # <<>> /\ chain = NoChain
    /\ cubies # SolvedCubies

\* C16: initCube(), and reset() when idle with an empty queue, leave exactly
\* 27 cubies, one at each point of {-1,0,1}^3 (the point its colours were made
\* for), each with identity orientation, and leave the move history and the
\* animation queue empty, whatever the state was before.
C16_InitSolved ==
    LET t == InitCube(State) IN
    /\ DOMAIN t.cubies = Ids /\ Cardinality(DOMAIN t.cubies) = 27
    /\ {t.cubies[i].pos : i \in Ids} = Grid
    /\ \A i \in Ids : /\ t.cubies[i].pos = CanonPos(i)
                      /\ t.cubies[i].ori = Identity
                      /\ t.cubies[i].parent = CubeGroup
    /\ t.moveHistory = <<>>
    /\ t.animationQueue = <<>>
    /\ (~isAnimating /\ animationQueue = <<>>) => Reset(State) = t

\* a reset after rotations have been requested and committed
C16_Witness ==
    /\ nreq > 0 /\ log = <<>> /\ Idle
    /\ cubies = SolvedCubies /\ moveHistory = <<>>

\* C17: scramble() started when idle performs exactly SCRAMBLE_MOVES (20)
\* moves, each one of the 12 canonical names, strictly one after another:
\* while it runs, with no other input, the queue is empty and the one rotation
\* in flight is the move at the chain's index, recorded; the moves committed
\* so far are the last entries of the history, in execution order; and
\* completion is reported in the step that commits the 20th move, and in no
\* other step.
C17_ScrambleSequential ==
    /\ [](chain.kind = "scramble" =>
             /\ Len(chain.moves) = 20
             /\ \A k \in 1..20 : chain.moves[k] \in MoveNames
             /\ chain.index < 20
             /\ animationQueue = <<>>
             /\ Cardinality(anims) = 1
             /\ \A a \in anims :
                    /\ a.record /\ a.callback = "doNextMove"
                    /\ MoveOf(a) = MOVES[chain.moves[chain.index + 1]]
             /\ Len(moveHistory) >= chain.index
             /\ \A k \in 1..chain.index :
                    moveHistory[Len(moveHistory) - chain.index + k] = MOVES[chain.moves[k]])
    /\ [][/\ \A a \in anims :
                 (Committing(a) /\ chain.kind = "scramble") =>
                     /\ moveHistory' = Append(moveHistory, MoveOf(a))
                     /\ IF chain.index + 1 = 20
                        THEN chain' = NoChain /\ status' = "Scrambled" /\ Idle'
                        ELSE chain' = [chain EXCEPT !.index = @ + 1] /\ status' = status
          /\ ((chain.kind = "scramble" /\ chain'.kind # "scramble")
                  \/ (status' = "Scrambled" /\ status # "Scrambled")) =>
                 /\ chain.kind = "scramble" /\ chain' = NoChain
                 /\ chain.index + 1 = 20
                 /\ \E a \in anims : Committing(a)]_vars

\* a scramble on a fresh cube has completed: 20 commits, 20 history entries
C17_Witness ==
    /\ Idle /\ status = "Scrambled" /\ chain = NoChain
    /\ Len(log) = 20 /\ Len(moveHistory) = 20
    /\ \A k \in 1..20 : log[k].src = "scramble" /\ moveHistory[k] = MoveOf(log[k])
    /\ log[1].axis # log[2].axis

\* the nearest multiple of 90 degrees to angle, in quarter turns (half way
\* goes up)
NearestQuarter(angle) ==
    CHOOSE k \in -5..5 : 2 * (90 * k - angle) <= 90 /\ 2 * (angle - 90 * k) < 90

\* the angle the gesture finalized in this step was released at: the start
\* angle of the snap animation that ends, or the angle of the touchend
ReleaseAngle ==
    IF snaps' # snaps THEN (CHOOSE c \in snaps \ snaps' : TRUE).startAngle
    ELSE touchState.currentRotation

\* C18: Snap and recording. The step that commits a gesture rotation (its
\* rotation group goes away) commits the nearest multiple of 90 degrees to the
\* angle at release, k quarter turns, and appends to the history exactly one
\* move of direction +1 if k mod 4 = 1, exactly one of direction -1 if
\* k mod 4 = 3, exactly two of direction +1 if k mod 4 = 2, and nothing if
\* k mod 4 = 0 (40 degrees gives 0, 50 gives 90, 185 gives 180, -100 gives -90).
C18_SnapAndRecord ==
    /\ NearestQuarter(40) = 0 /\ NearestQuarter(50) = 1
    /\ NearestQuarter(185) = 2 /\ NearestQuarter(-100) = -1
    /\ [][(touchState.rotationGroup # NoGroup /\ touchState'.rotationGroup = NoGroup) =>
             LET k == NearestQuarter(ReleaseAngle)
                 n == Len(moveHistory)
                 added == SubSeq(moveHistory', n + 1, Len(moveHistory')) IN
             /\ groups'[-touchState.rotationGroup].angle = 90 * k
             /\ SubSeq(moveHistory', 1, n) = moveHistory
             /\ CASE k % 4 = 1 -> Len(added) = 1 /\ added[1].direction = 1
                  [] k % 4 = 3 -> Len(added) = 1 /\ added[1].direction = -1
                  [] k % 4 = 2 -> Len(added) = 2 /\ added[1].direction = 1
                                                 /\ added[2].direction = 1
                  [] OTHER -> Len(added) = 0]_vars

\* a gesture released at 185 degrees has committed at 180: two moves of
\* direction +1 in the history
C18_Witness ==
    /\ touchState.rotationGroup = NoGroup /\ snaps = {} /\ Len(groups) = 1
    /\ groups[1].angle = 180 /\ Len(moveHistory) = 2
    /\ moveHistory[1].direction = 1 /\ moveHistory[2].direction = 1
    /\ \E i \in Ids : cubies[i].pos # CanonPos(i)

\* the finalize call a gesture with rotation group g and snap target angle
\* is due
OwnCall(g, angle) ==
    [finalAngle |-> angle, axis |-> groups[-g].axis, layer |-> groups[-g].layer,
     group |-> g]

\* C19: Gesture completion. When the snap animation of a released gesture
\* ends, the commit step is performed once in that step, with the gesture's
\* own axis, layer and rotation group and with the snap target angle (the
\* gesture state the commit needs has not been cleared by then); a gesture
\* released at a quarter turn is committed in the step of its release; and
\* the commit step is performed in no other step.
C19_GestureCompletion ==
    [][/\ \A c \in snaps :
              c \notin snaps' =>
                  finalizeCalls' = Append(finalizeCalls, OwnCall(c.group, c.snapAngle))
       /\ (touchState.rotationGroup # NoGroup /\ touchState'.rotationGroup = NoGroup
               /\ snaps' = snaps) =>
              finalizeCalls' = Append(finalizeCalls,
                                      OwnCall(touchState.rotationGroup,
                                              touchState.currentRotation))
       /\ finalizeCalls' # finalizeCalls =>
              \/ snaps' # snaps
              \/ touchState.rotationGroup # NoGroup /\ touchState'.rotationGroup = NoGroup]_vars

\* C20: Corner neighbor selection. For every neighbor list and every total
\* displacement (dx, dy) the result is: null for an empty list; the first
\* neighbor on axis y when |dx| > |dy| and there is one; the first neighbor on
\* an axis other than y when |dx| <= |dy| and there is one; otherwise the
\* first neighbor of the list.
C20_CornerNeighbor ==
    (call.fn = "selectCornerNeighborBySwipeDirection" /\ call.done) =>
        LET n == call.neighborFaces
            horizontal == call.deltaX * call.deltaX > call.deltaY * call.deltaY
            ys == {k \in 1..Len(n) : n[k].axis = "y"}
            sides == {k \in 1..Len(n) : n[k].axis # "y"} IN
        IF n = <<>> THEN call.result = NoFace
        ELSE IF horizontal /\ ys # {}
        THEN \E k \in ys : call.result = n[k] /\ \A j \in 1..(k - 1) : j \notin ys
        ELSE IF ~horizontal /\ sides # {}
        THEN \E k \in sides : call.result = n[k] /\ \A j \in 1..(k - 1) : j \notin sides
        ELSE call.result = n[1]

\* a horizontal swipe on a list whose first neighbor is a side face: the y
\* neighbor further down the list is selected
C20_Witness ==
    /\ call.fn = "selectCornerNeighborBySwipeDirection" /\ call.done
    /\ Len(call.neighborFaces) = 3
    /\ call.neighborFaces[1].axis = "x" /\ call.neighborFaces[2].axis = "z"
    /\ call.deltaX = -2 /\ call.deltaY = 1
    /\ call.result = call.neighborFaces[3] /\ call.result.axis = "y"

\* the outer faces the grid position p lies on
FacesOf(p) ==
    {f \in {[axis |-> a, layer |-> l] : a \in Axes, l \in {-1, 1}} :
         p[AxisIndex(f.axis)] = f.layer}

\* C21: Classification. For every grid position of {-1,0,1}^3 and every
\* clicked face, getCubieTypeAndNeighbors returns 'center' exactly when the
\* position lies on 1 outer face, 'edge' exactly when on 2, 'corner' exactly
\* when on 3; and when the clicked face contains the cubie, neighborFaces is
\* exactly the set of the other outer faces containing it.
C21_Classification ==
    (call.fn = "getCubieTypeAndNeighbors" /\ call.done) =>
        LET n == Cardinality(FacesOf(call.cubiePos))
            clicked == [axis |-> call.clickedAxis, layer |-> call.clickedLayer]
            nf == call.result.neighborFaces IN
        /\ call.result.cubieType = "center" <=> n = 1
        /\ call.result.cubieType = "edge" <=> n = 2
        /\ call.result.cubieType = "corner" <=> n = 3
        /\ clicked \in FacesOf(call.cubiePos) =>
               /\ {nf[k] : k \in 1..Len(nf)} = FacesOf(call.cubiePos) \ {clicked}
               /\ Len(nf) = n - 1

\* C22: Face membership and frame. Whenever no rotation is animating,
\* getCubiesOnFace(axis, layer) returns exactly 9 cubies, those whose live
\* coordinate on axis equals layer; and the commit of rotateFace(axis, layer,
\* d) changes position and orientation of the 9 cubies of that face only,
\* turns each of them, keeps them on the same layer, and leaves the other 18
\* cubies as they were.
C22_FaceMembership ==
    /\ [](~isAnimating =>
             \A axis \in Axes, layer \in Layers :
                 /\ Cardinality(GetCubiesOnFace(cubies, axis, layer)) = 9
                 /\ \A i \in Ids : i \in GetCubiesOnFace(cubies, axis, layer)
                                       <=> cubies[i].pos[AxisIndex(axis)] = layer)
    /\ [][\A a \in anims :
              Committing(a) =>
                  /\ Cardinality(a.faceCubies) = 9
                  /\ \A i \in Ids \ a.faceCubies :
                         cubies'[i].pos = cubies[i].pos /\ cubies'[i].ori = cubies[i].ori
                  /\ \A i \in a.faceCubies :
                         /\ cubies[i].pos[AxisIndex(a.axis)] = a.layer
                         /\ cubies'[i].pos[AxisIndex(a.axis)] = a.layer
                         /\ cubies'[i].ori # cubies[i].ori]_vars

\* two committed rotations about different axes, the first of an outer layer
C22_Witness ==
    /\ Idle /\ Len(log) = 2 /\ log[1].axis # log[2].axis /\ log[1].layer # 0
    /\ Cardinality({i \in Ids : cubies[i].pos # CanonPos(i)}) >= 8

\* the outward normal of a canonical face, from the move table
Normal(face) ==
    [k \in 1..3 |-> IF k = AxisIndex(MOVES[face].axis) THEN MOVES[face].layer ELSE 0]

\* the canonical face that the view rotation carries to the relative direction
Occupying(rotation, dir) ==
    CHOOSE face \in validMoves :
        ApplyQuaternion(rotation, Normal(face)) = RelativeDirections[dir]

\* the rotation in flight or committed is the move called name
Dispatched(name) ==
    \/ \E a \in anims : /\ a.axis = MOVES[name].axis
                        /\ a.layer = MOVES[name].layer
                        /\ a.direction = MOVES[name].direction
    \/ /\ anims = {}
       /\ moveHistory = <<MOVES[name]>>

\* C23: Orientation-aware mapping. Under each axis-aligned view orientation
\* getCurrentFaceMapping maps every relative direction to the canonical face
\* the view carries to that direction, a key press dispatches that face's move
\* (primed when Shift is held), a half turn about the vertical axis swaps
\* front and back, and the identity view maps every direction to its own face.
C23_OrientedMapping ==
    (call.fn = "keydown" /\ call.done /\ ToUpperCase(call.key) \in validMoves) =>
        LET mapping == GetCurrentFaceMapping(call.rotation)
            face == Occupying(call.rotation, KEY_TO_RELATIVE[ToUpperCase(call.key)])
        IN  /\ \A dir \in DOMAIN RelativeDirections :
                   /\ \E f \in validMoves :
                          ApplyQuaternion(call.rotation, Normal(f)) = RelativeDirections[dir]
                   /\ mapping[dir] = Occupying(call.rotation, dir)
            /\ call.result = IF call.shiftKey THEN Prime(face) ELSE face
            /\ Dispatched(call.result)
            /\ call.rotation = <<0, 2, 0>> =>
                   mapping["front"] = "B" /\ mapping["back"] = "F"
            /\ call.rotation = <<0, 0, 0>> =>
                   \A k \in DOMAIN KEY_TO_RELATIVE : mapping[KEY_TO_RELATIVE[k]] = k

\* a key pressed with Shift under a quarter turn about the vertical axis
\* has dispatched the primed move of another face, and the move has committed
C23_Witness ==
    /\ call.fn = "keydown" /\ call.done /\ call.shiftKey
    /\ call.rotation = <<0, 1, 0>>
    /\ call.key = "f"
    /\ call.result # "F'"
    /\ anims = {} /\ Len(moveHistory) = 1

\* the step is a touchstart with two touches
TwoTouchStart == ~touchState.swipeTouch /\ touchState'.swipeTouch /\ call'.fn = "touchstart"

\* the touches of the touchstart of this step that hit a cubie
HitTouches == {k \in 1..2 : call'.touches[k] # <<"null", 0>>}

C24_SecondTouchDrives ==
    [][TwoTouchStart =>
        IF call'.touches[2] # <<"null", 0>>
        THEN /\ Len(groups') = Len(groups) + 1
             /\ touchState'.rotationGroup = -Len(groups')
             /\ touchState'.swipeAxis = call'.touches[2][1]
             /\ touchState'.swipeLayer = call'.touches[2][2]
        ELSE groups' = groups /\ cubies' = cubies]_vars

C25_UnknownNameIgnored ==
    \A moveName \in MalformedNames \ InheritedNames : \A record \in BOOLEAN :
        ExecuteMove(State, moveName, record, "null") = State

\* the engine state after executeMove(moveName) on the idle engine and the
\* last frame of its animation
AfterMove(s, moveName) ==
    LET t == ExecuteMove(s, moveName, TRUE, "null")
    IN  Commit(t, CHOOSE a \in t.anims : TRUE)

\* C26: Move table. For each letter X, MOVES[X] and MOVES[X'] have the same
\* axis and layer and opposite directions, the un-primed move turns clockwise
\* seen from outside its face (direction = -layer), and on the idle engine
\* executeMove(X) followed by executeMove(X') restores the grid, positions and
\* orientations.
C26_MoveTable ==
    /\ \A X \in validMoves :
           /\ MOVES[X].axis = MOVES[Prime(X)].axis
           /\ MOVES[X].layer = MOVES[Prime(X)].layer
           /\ MOVES[X].direction = -MOVES[Prime(X)].direction
           /\ MOVES[X].direction = -MOVES[X].layer
           /\ MOVES[X].layer \in {-1, 1}
    /\ Idle => \A X \in validMoves :
                   /\ AfterMove(State, X).cubies # cubies
                   /\ AfterMove(AfterMove(State, X), Prime(X)).cubies = cubies
    /\ (Idle /\ Len(log) = 2 /\ \E X \in validMoves :
            MoveOf(log[1]) = MOVES[X] /\ MoveOf(log[2]) = MOVES[Prime(X)])
           => cubies = SolvedCubies

\* F then F' have committed on the fresh cube and the grid is the solved one
C26_Witness ==
    /\ Idle /\ Len(log) = 2
    /\ MoveOf(log[1]) = MOVES["F"] /\ MoveOf(log[2]) = MOVES["F'"]
    /\ cubies = SolvedCubies
    /\ moveHistory = <<MOVES["F"], MOVES["F'"]>>

\* the states of the class and of the page script that C27 calls related
Related(a, b) ==
    /\ a.cubies = b.cubies
    /\ a.moveHistory = b.moveHistory
    /\ a.animationQueue = b.animationQueue
    /\ a.isAnimating = b.isAnimating

\* C27: Backward compatibility of the refactor. From every state the class
\* reaches through scramble, solve, reset, executeMove and frame callbacks,
\* an operation of RubiksCube (cube.js) and the function of script.js of the
\* same name, given the same random draws, lead to states with the same grid,
\* move history, queue and isAnimating (executeMove, rotateFace and the frame
\* callbacks are the same code in both).
C27_BackwardCompatible ==
    /\ \A scrambleMoves \in [1..ScrambleLen -> QueueNames] :
           Related(ScrambleWith(State, scrambleMoves), ScrambleScript(State, scrambleMoves))
    /\ Related(Solve(State), SolveScript(State))
    /\ Related(Reset(State), ResetScript(State))

\* the part of C27 the two versions keep: solve and reset agree in every
\* state, and scramble agrees on everything but the history, and on the
\* history too when it is empty at the call
C27_AgreeButScrambleHistory ==
    /\ \A scrambleMoves \in [1..ScrambleLen -> QueueNames] :
           LET a == ScrambleWith(State, scrambleMoves)
               b == ScrambleScript(State, scrambleMoves)
           IN  /\ a.cubies = b.cubies
               /\ a.animationQueue = b.animationQueue
               /\ a.isAnimating = b.isAnimating
               /\ a.anims = b.anims
               /\ (moveHistory = <<>> \/ Busy(State)) => a.moveHistory = b.moveHistory
    /\ Related(Solve(State), SolveScript(State))
    /\ Related(Reset(State), ResetScript(State))

\* the cubies whose materials carry the highlight
Highlighted == {i \in Ids : materials[i] = "glow"}

\* C28: Highlight restore. At any time at most one cubie is highlighted, and
\* once a gesture has ended no cubie is highlighted: every cubie's materials
\* are as they were before the gesture, also when a second touch-start
\* arrived before the release.
C28_HighlightRestore ==
    /\ Cardinality(Highlighted) <= 1
    /\ ~touchState.activeFaceRotation => Highlighted = {}

\* the strategy C29 names for a cubie type
ClaimedClass(cubieType) ==
    IF cubieType = "corner" THEN "CornerRotationStrategy" ELSE "StandardRotationStrategy"

\* C29: Strategy dispatch. getStrategy returns a StandardRotationStrategy for
\* 'center' and for 'edge', a CornerRotationStrategy for 'corner', and the
\* center strategy for any other cubie type; every call for the same type
\* returns the same instance.
C29_StrategyDispatch ==
    call.fn = "getStrategy" =>
        \A k \in 1..Len(call.args) :
            /\ call.results[k].class = ClaimedClass(call.args[k])
            /\ call.args[k] \notin {"center", "edge", "corner"} =>
                   call.results[k] = strategies["center"]
            /\ \A j \in 1..Len(call.args) :
                   call.args[j] = call.args[k] => call.results[j] = call.results[k]

\* the part of C29 the factory keeps: the dispatch is as claimed for every
\* type that is not the name of a property of Object.prototype
C29_DispatchOfOwnTypes ==
    call.fn = "getStrategy" =>
        \A k \in 1..Len(call.args) :
            call.args[k] \notin InheritedNames =>
                /\ call.results[k].class = ClaimedClass(call.args[k])
                /\ call.args[k] \notin {"center", "edge", "corner"} =>
                       call.results[k] = strategies["center"]
                /\ \A j \in 1..Len(call.args) :
                       call.args[j] = call.args[k] => call.results[j] = call.results[k]

AllDisabled == buttons.scrambleBtn /\ buttons.solveBtn /\ buttons.resetBtn

AllEnabled == ~buttons.scrambleBtn /\ ~buttons.solveBtn /\ ~buttons.resetBtn

\* a scramble or a solve of the page script is under way
Operating == chain.kind \in {"scramble", "solve"}

\* C30: Control enablement. disableButtons disables the three controls and
\* enableButtons enables the three; the controls are disabled from the start
\* of a scramble or a solve until its completion and enabled otherwise, the
\* step that completes the operation enables them, and under fair frame
\* scheduling disabled controls are always eventually enabled again.
C30_ControlEnablement ==
    /\ [](/\ DisableButtons(State).buttons =
                 [scrambleBtn |-> TRUE, solveBtn |-> TRUE, resetBtn |-> TRUE]
          /\ EnableButtons(State).buttons =
                 [scrambleBtn |-> FALSE, solveBtn |-> FALSE, resetBtn |-> FALSE]
          /\ (Operating => AllDisabled)
          /\ (~Operating => AllEnabled))
    /\ [][(Operating /\ ~Operating') => (AllDisabled /\ AllEnabled')]_vars
    /\ [][(~Operating /\ Operating') => (AllEnabled /\ AllDisabled')]_vars
    /\ (AllDisabled ~> AllEnabled)

\* a scramble and then a solve have run to completion and the controls are
\* enabled again
C30_Witness ==
    /\ AllEnabled /\ Idle /\ status = "Solved" /\ chain = NoChain
    /\ Len(log) = 2 * ScrambleLen
    /\ log[1].src = "scramble" /\ log[Len(log)].src = "solve"

\* the entry rotateFace pushes to the history for the closure a
MoveOfClosure(a) == [axis |-> a.axis, layer |-> a.layer, direction |-> a.direction]

\* the state the completion callback of the closure a finds
AtCallback(a) == CommitUntilCallback(State, a)

\* the completion callback of a asks for another rotation
ChainGoesOn(a) == a.callback = "doNextMove" /\ chain.index + 1 < Len(chain.moves)

\* C31: Commit ordering. At the commit of a rotation the 9 cubies are
\* reattached at grid positions, the move is appended to the history (if
\* record) and isAnimating becomes false before the completion callback runs,
\* and the queue is looked at only after it: the callback finds the move in
\* the history and the engine not animating, and the rotation it requests
\* starts at once, ahead of every queued request, none of which is started
\* or dropped.
C31_CommitOrdering ==
    /\ [](\A a \in anims :
              LET s2 == AtCallback(a) IN
              /\ Cardinality(a.faceCubies) = 9
              /\ \A i \in a.faceCubies : /\ s2.cubies[i].parent = CubeGroup
                                         /\ s2.cubies[i].pos \in Grid
              /\ a.record => /\ Len(s2.moveHistory) = Len(moveHistory) + 1
                             /\ s2.moveHistory[Len(s2.moveHistory)] = MoveOfClosure(a)
              /\ ~a.record => s2.moveHistory = moveHistory
              /\ ~s2.isAnimating /\ s2.anims = {}
              /\ s2.animationQueue = animationQueue
              /\ ChainGoesOn(a) =>
                     LET s3 == Callback(s2, a.callback) IN
                     /\ s3.isAnimating
                     /\ s3.animationQueue = animationQueue
                     /\ \E b \in s3.anims : b.id = nreq + 1 /\ b.callback = "doNextMove")
    /\ [][\A a \in anims : (Committing(a) /\ ChainGoesOn(a)) =>
              /\ \E b \in anims' : /\ b.id = nreq + 1 /\ b.during = 0
                                   /\ b.callback = "doNextMove"
              /\ Len(animationQueue') = Len(animationQueue)
              /\ {animationQueue'[k] : k \in 1..Len(animationQueue')}
                     = {animationQueue[k] : k \in 1..Len(animationQueue)}]_vars

\* a move of a scramble has committed while key presses waited in the queue,
\* and the next move of the scramble is in flight with the key presses still
\* queued
C31_Witness ==
    /\ chain.kind = "scramble" /\ chain.index = 1
    /\ Len(log) = 1 /\ log[1].src = "scramble"
    /\ Len(animationQueue) >= 2
    /\ \E b \in anims : b.callback = "doNextMove" /\ b.during = 0 /\ b.id > animationQueue[1].id
    /\ Len(moveHistory) = 1

\* C32: History consistency. At every idle instant reached through key
\* presses, scramble, solve and reset, an empty move history implies that the
\* cube is in the solved state.
C32_HistoryConsistency ==
    (Idle /\ moveHistory = <<>>) => cubies = SolvedCubies

\* the grid after rotateFace(m.axis, m.layer, m.direction) has run to its
\* commit on the grid c
TurnFace(c, m) ==
    [i \in Ids |->
        IF m.axis \in Axes /\ c[i].pos[AxisIndex(m.axis)] = m.layer
        THEN Reattach([c[i] EXCEPT !.parent = 1],
                      [axis |-> m.axis, direction |-> m.direction, id |-> 1], <<>>)
        ELSE c[i]]

\* the moves of a history played on the grid c: each by rotateFace, in order
RECURSIVE Play(_, _)
Play(c, moves) ==
    IF moves = <<>> THEN c ELSE Play(TurnFace(c, Head(moves)), Tail(moves))

\* the moves of a history undone on the grid c, as solve does: last first,
\* direction negated
RECURSIVE Undo(_, _)
Undo(c, moves) ==
    IF moves = <<>> THEN c
    ELSE Undo(TurnFace(c, [moves[Len(moves)] EXCEPT !.direction = -@]),
              SubSeq(moves, 1, Len(moves) - 1))

\* the grid with the cubies of the gesture rotation group back under the
\* cube where the gesture took them from
BeforeGesture ==
    [i \in Ids |-> IF cubies[i].parent = touchState.rotationGroup
                   THEN [cubies[i] EXCEPT !.parent = CubeGroup] ELSE cubies[i]]

\* C33: Gesture record equivalence. At the commit of a gesture snapped to k
\* quarter turns (k positive, negative, or a full turn and more) the grid is
\* the grid before the gesture with the layer turned by k times 90 degrees,
\* the moves appended to the history, played by rotateFace on the grid before
\* the gesture, give that same grid, and undoing them as solve does gives the
\* grid before the gesture back.
C33_GestureRecord ==
    [][(touchState.rotationGroup # NoGroup /\ touchState'.rotationGroup = NoGroup) =>
          LET k == NearestQuarter(ReleaseAngle)
              g == groups[-touchState.rotationGroup]
              added == SubSeq(moveHistory', Len(moveHistory) + 1, Len(moveHistory'))
          IN  /\ \A i \in Ids :
                     cubies'[i].pos = IF cubies[i].parent = touchState.rotationGroup
                                      THEN RotateRound(g.axis, 90 * k, cubies[i].pos)
                                      ELSE cubies[i].pos
              /\ \A m \in {added[j] : j \in 1..Len(added)} :
                     m.axis = g.axis /\ m.layer = g.layer
              /\ Play(BeforeGesture, added) = cubies'
              /\ Undo(cubies', added) = BeforeGesture]_vars

\* a gesture released past a full turn has committed as a full turn with no
\* move recorded, after an earlier frame of its snap animation
C33_Witness ==
    /\ touchState.rotationGroup = NoGroup /\ snaps = {} /\ Len(groups) = 1
    /\ groups[1].angle = 360 /\ moveHistory = <<>>
    /\ \A i \in Ids : cubies[i].parent = CubeGroup /\ cubies[i].pos = CanonPos(i)

\* C34: Idle implies empty queue. Between any two handlers (a request, a
\* frame callback, a commit with its completion callback and its look at the
\* queue), isAnimating = false implies that the animation queue is empty.
C34_IdleImpliesEmptyQueue == ~isAnimating => animationQueue = <<>>

\* every request made has committed and the engine is at rest with an empty
\* queue, after a key press was queued behind a running scramble
C34_Witness ==
    /\ ~isAnimating /\ animationQueue = <<>> /\ anims = {}
    /\ nreq >= 3 /\ Len(log) = nreq
    /\ log[1].src = "scramble"
    /\ \E k \in 2..Len(log) : log[k].src = "key"

\* the places of the log where the request n of a caller committed
CommitsOf(n) == {k \in 1..Len(log) : log[k].id = n /\ log[k].src = "key"}

\* the places of the log where the callback cb ran
RunsOf(cb) == {k \in 1..Len(log) : log[k].src = cb}

TargetChosen ==
    /\ touchState.swipeTouch /\ touchState.cornerRotationStarted
    /\ touchState.rotationGroup # NoGroup

\* C36: Gesture target fixed once. Once a gesture has its rotation target
\* (chosen at touch-down for a centre or edge cubie, at the first sample past
\* the threshold for a corner cubie), every angle update uses the axis and
\* layer of the rotation group that was detached, which are also the axis and
\* layer the commit will use, and no later sample of the same gesture chooses
\* again.
C36_TargetFixedOnce ==
    /\ [](TargetChosen =>
              LET g == groups[-touchState.rotationGroup] IN
              /\ touchState.swipeAxis = g.axis /\ touchState.swipeLayer = g.layer
              /\ touchState.rotationAxis # "null" =>
                     /\ touchState.rotationAxis = g.axis
                     /\ touchState.rotationLayer = g.layer)
    /\ [][(TargetChosen /\ budget' = budget /\ touchState'.touches = 2
             /\ touchState'.rotationGroup # NoGroup) =>
              /\ touchState'.rotationGroup = touchState.rotationGroup
              /\ touchState'.swipeAxis = touchState.swipeAxis
              /\ touchState'.swipeLayer = touchState.swipeLayer]_vars

\* C37: Corner reachability. For every corner cubie and each of its three
\* outer faces as the clicked face, a horizontal swipe (|dx| > |dy|) and a
\* vertical swipe (|dx| <= |dy|) select different neighbor faces: the face a
\* swipe selected is not the face any swipe of the other kind selects.
C37_CornerReachability ==
    (call.fn = "cornerSwipe" /\ call.done) =>
        \A dx \in -MaxDelta..MaxDelta, dy \in -MaxDelta..MaxDelta :
            ((Abs(dx) > Abs(dy)) # (Abs(call.deltaX) > Abs(call.deltaY)))
                => CornerSwipe(call.clickedAxis, call.clickedLayer, call.cubiePos, dx, dy)
                       # call.result

\* the cubies under the cube frame that are no cubies of the model
Ghosts ==
    UNION {groups[k].ghosts : k \in {j \in 1..Len(groups) : "ghosts" \in DOMAIN groups[j]}}

\* the gesture rotation group is attached and holds no cubie of the model:
\* initCube has replaced the cubies it took
GroupOutlivedReset ==
    /\ touchState.rotationGroup # NoGroup
    /\ \A i \in Ids : cubies[i].parent # touchState.rotationGroup
    /\ "held" \in DOMAIN groups[-touchState.rotationGroup]

\* C38: Reset versus an active gesture. When the gesture whose rotation group
\* was attached at a reset() (or at the solve() that reinitializes) finalizes,
\* exactly the 27 cubies of the model are under the cube frame, all at their
\* canonical positions, and the history is empty: no cubie from before the
\* reset is reattached and no move of the old gesture is recorded.
C38_ResetVersusGesture ==
    [][(GroupOutlivedReset /\ touchState'.rotationGroup = NoGroup) =>
          /\ Ghosts' = {}
          /\ \A i \in Ids : cubies'[i].parent = CubeGroup /\ cubies'[i].pos = CanonPos(i)
          /\ moveHistory' = <<>>]_vars

====
